---- MODULE Spec2Model ----
(***************************************************************************)
(* react-native-draggable-masonry: the layout functions of masonry.ts and  *)
(* the drag session state machine of the flat-order DraggableMasonryList.  *)
(*                                                                         *)
(* Indices are 0-based as in the source (findIndex, splice); TLA+          *)
(* sequences are 1-based, so element i of a JS array is seq[i + 1].       *)
(* One action is one JS task: the handler, the React render its state      *)
(* updates cause (batched), and the effects of that render.                *)
(***************************************************************************)
EXTENDS Integers, Sequences, FiniteSets, TLC

\* ------------------------------------------------------------------ bounds
MaxItems == 2
MaxTimers == 2
MaxCols == 3
MaxLen == 3

\* ------------------------------------------------------- program constants
\* DEFAULT_PROPS of types.ts
numColumns == 2
rowGap == 10
columnGap == 10

NULL == "null"

\* Test data of __tests__/DraggableMasonryList.test.tsx, continued by the
\* same rule past its four items.
mockHeight(i) ==
    CASE i = 1 -> 100
      [] i = 2 -> 150
      [] i = 3 -> 120
      [] i = 4 -> 80
      [] OTHER -> 50 + 10 * i

mockItem(i) == [id |-> ToString(i), height |-> mockHeight(i)]

Universe == {mockItem(i) : i \in 1..MaxItems}
Keys == {it.id : it \in Universe}

\* A container width for which the column width is a whole number for every
\* column count up to 6.
MeasuredWidth == 360 - columnGap

\* ------------------------------------------------------------- JS helpers
Max2(a, b) == IF a > b THEN a ELSE b
Min2(a, b) == IF a < b THEN a ELSE b

RECURSIVE MaxOf(_, _, _)
\* Math.max(...arr, seed) over arr[i..]
MaxOf(arr, i, seed) ==
    IF i > Len(arr) THEN seed ELSE MaxOf(arr, i + 1, Max2(seed, arr[i]))

\* a variant of Put that starts a new object instead of extending obj
PutReplacing(obj, key, value) == [q \in {key} |-> value]

\* obj[key] = value on a Record<string, _>
Put(obj, key, value) ==
    [q \in (DOMAIN obj) \cup {key} |-> IF q = key THEN value ELSE obj[q]]

EmptyObject == [q \in {} |-> 0]

\* arr.filter(item => keyExtractor(item) !== id)
FilterOut(arr, id) == SelectSeq(arr, LAMBDA it : it.id # id)

RECURSIVE FindIndexFrom(_, _, _)
FindIndexFrom(arr, id, i) ==
    IF i > Len(arr) THEN -1
    ELSE IF arr[i].id = id THEN i - 1
    ELSE FindIndexFrom(arr, id, i + 1)

\* arr.findIndex(item => keyExtractor(item) === id): 0-based, -1 when absent
FindIndex(arr, id) == FindIndexFrom(arr, id, 1)

\* arr.find(...) !== undefined
Has(arr, id) == FindIndex(arr, id) >= 0

\* arr.find(item => keyExtractor(item) === id), when present
Find(arr, id) == arr[FindIndex(arr, id) + 1]

\* arr.slice(0, end): a negative end counts from the end of the array
Slice0(arr, end) ==
    LET e == IF end < 0 THEN Max2(Len(arr) + end, 0) ELSE Min2(end, Len(arr))
    IN  SubSeq(arr, 1, e)

\* arr.splice(start, 0, item) on a copy: start is clamped to [0, length]
SpliceIn(arr, start, item) ==
    LET s == IF start < 0 THEN Max2(Len(arr) + start, 0) ELSE Min2(start, Len(arr))
    IN  SubSeq(arr, 1, s) \o <<item>> \o SubSeq(arr, s + 1, Len(arr))

IdsOf(arr) == {arr[i].id : i \in 1..Len(arr)}

\* a variant of SpliceOut that removes nothing
SpliceOutNothing(arr, start) == arr

\* arr.splice(start, 1) on a copy, for 0 <= start < length: the array without
\* the element at start
SpliceOut(arr, start) ==
    SubSeq(arr, 1, start) \o SubSeq(arr, start + 2, Len(arr))

\* a variant of reorderItems that exchanges the elements at the two indices
reorderItemsSwap(arr, fromIndex, toIndex) ==
    [items |-> arr,
     result |-> [q \in 1..Len(arr) |->
                    IF q = fromIndex + 1 THEN arr[toIndex + 1]
                    ELSE IF q = toIndex + 1 THEN arr[fromIndex + 1] ELSE arr[q]]]

\* a variant of reorderItems that takes toIndex as an index of the input list
reorderItemsAdjusted(arr, fromIndex, toIndex) ==
    LET result == arr
        removed == result[fromIndex + 1]
    IN  [items |-> arr,
         result |-> SpliceIn(SpliceOut(result, fromIndex),
                             IF fromIndex < toIndex THEN toIndex - 1 ELSE toIndex,
                             removed)]

\* reorderItems(items, fromIndex, toIndex), for indices of the list: the
\* argument array as the call leaves it, and the returned array
reorderItems(arr, fromIndex, toIndex) ==
    LET result == arr
        removed == result[fromIndex + 1]
    IN  [items |-> arr,
         result |-> SpliceIn(SpliceOut(result, fromIndex), toIndex, removed)]

\* ------------------------------------------------------ layout (pure code)
RECURSIVE ShortestFromTiesLast(_, _, _)
\* a variant of ShortestFrom that takes the highest index among the
\* smallest heights
ShortestFromTiesLast(columnHeights, c, best) ==
    IF c > Len(columnHeights) THEN best
    ELSE ShortestFromTiesLast(columnHeights, c + 1,
                              IF columnHeights[c] <= columnHeights[best] THEN c ELSE best)

RECURSIVE ShortestFrom(_, _, _)
\* the scan `for (c = 1; c < n; c++) if (h[c] < h[min]) min = c`, on 1-based
\* positions: the lowest index among the smallest heights
ShortestFrom(columnHeights, c, best) ==
    IF c > Len(columnHeights) THEN best
    ELSE ShortestFrom(columnHeights, c + 1,
                      IF columnHeights[c] < columnHeights[best] THEN c ELSE best)

ShortestColumn(columnHeights) == ShortestFrom(columnHeights, 2, 1)

ZeroHeights(n) == [c \in 1..n |-> 0]

ColumnWidth(width, n, gap) == (width - (n - 1) * gap) \div n

\* one iteration of the `for (const item of data)` loop of calculateLayout
PlaceFlat(acc, item, columnWidth, rGap, cGap) ==
    LET minColumn == ShortestColumn(acc.columnHeights)
        rect == [x |-> (minColumn - 1) * (columnWidth + cGap),
                 y |-> acc.columnHeights[minColumn],
                 width |-> columnWidth,
                 height |-> item.height,
                 column |-> minColumn - 1]
    IN  [columnHeights |-> [acc.columnHeights EXCEPT ![minColumn] = @ + item.height + rGap],
         positions |-> Put(acc.positions, item.id, rect)]

RECURSIVE FlatLoop(_, _, _, _, _, _)
FlatLoop(arr, i, acc, columnWidth, rGap, cGap) ==
    IF i > Len(arr) THEN acc
    ELSE FlatLoop(arr, i + 1, PlaceFlat(acc, arr[i], columnWidth, rGap, cGap),
                  columnWidth, rGap, cGap)

\* calculateLayout(data, numColumns, containerWidth, rowGap, columnGap, keyExtractor)
calculateLayout(arr, n, width, rGap, cGap) ==
    LET acc == FlatLoop(arr, 1, [columnHeights |-> ZeroHeights(n), positions |-> EmptyObject],
                        ColumnWidth(width, n, cGap), rGap, cGap)
    IN  [positions |-> acc.positions,
         totalHeight |-> MaxOf(acc.columnHeights, 1, 0)]

\* a variant of PlaceInColumn that advances the column by the height alone
PlaceInColumnWithoutGap(acc, item, colIndex, columnWidth, gap) ==
    LET rect == [id |-> item.id,
                 x |-> colIndex * (columnWidth + gap),
                 y |-> acc.columnHeights[colIndex + 1],
                 width |-> columnWidth,
                 height |-> item.height,
                 column |-> colIndex]
    IN  [columnHeights |-> [acc.columnHeights EXCEPT ![colIndex + 1] = @ + item.height],
         positions |-> Put(acc.positions, item.id, rect)]

\* one iteration of the inner `colItems.forEach` of calculateColumnLayout
PlaceInColumn(acc, item, colIndex, columnWidth, gap) ==
    LET rect == [id |-> item.id,
                 x |-> colIndex * (columnWidth + gap),
                 y |-> acc.columnHeights[colIndex + 1],
                 width |-> columnWidth,
                 height |-> item.height,
                 column |-> colIndex]
    IN  [columnHeights |-> [acc.columnHeights EXCEPT ![colIndex + 1] = @ + item.height + gap],
         positions |-> Put(acc.positions, item.id, rect)]

RECURSIVE ColumnItemsLoop(_, _, _, _, _, _)
ColumnItemsLoop(colItems, i, acc, colIndex, columnWidth, gap) ==
    IF i > Len(colItems) THEN acc
    ELSE ColumnItemsLoop(colItems, i + 1,
                         PlaceInColumn(acc, colItems[i], colIndex, columnWidth, gap),
                         colIndex, columnWidth, gap)

RECURSIVE ColumnsLoop(_, _, _, _, _)
\* columns.forEach((colItems, colIndex) => ...)
ColumnsLoop(columns, c, acc, columnWidth, gap) ==
    IF c > Len(columns) THEN acc
    ELSE ColumnsLoop(columns, c + 1,
                     ColumnItemsLoop(columns[c], 1, acc, c - 1, columnWidth, gap),
                     columnWidth, gap)

\* a variant of calculateColumnLayout that reports the height of the first column
calculateColumnLayoutFirstColumn(columns, n, width, gap) ==
    LET acc == ColumnsLoop(columns, 1,
                           [columnHeights |-> ZeroHeights(n), positions |-> EmptyObject],
                           ColumnWidth(width, n, gap), gap)
    IN  [positions |-> acc.positions,
         columnHeights |-> acc.columnHeights,
         totalHeight |-> acc.columnHeights[1]]

\* calculateColumnLayout({columns, numColumns, containerWidth, gap})
calculateColumnLayout(columns, n, width, gap) ==
    LET acc == ColumnsLoop(columns, 1,
                           [columnHeights |-> ZeroHeights(n), positions |-> EmptyObject],
                           ColumnWidth(width, n, gap), gap)
    IN  [positions |-> acc.positions,
         columnHeights |-> acc.columnHeights,
         totalHeight |-> MaxOf(acc.columnHeights, 2, acc.columnHeights[1])]

\* a variant of Distribute whose scan takes the last of the shortest columns
DistributeTiesLast(acc, item) ==
    LET least == CHOOSE h \in {acc.columnHeights[c] : c \in DOMAIN acc.columnHeights} :
                     \A c \in DOMAIN acc.columnHeights : h <= acc.columnHeights[c]
        shortest == CHOOSE c \in DOMAIN acc.columnHeights :
                        /\ acc.columnHeights[c] = least
                        /\ \A d \in DOMAIN acc.columnHeights :
                              acc.columnHeights[d] = least => d <= c
    IN  [columnHeights |-> [acc.columnHeights EXCEPT ![shortest] = @ + item.height],
         columns |-> [acc.columns EXCEPT ![shortest] = Append(@, item)]]

\* one iteration of `items.forEach` of distributeToColumns
Distribute(acc, item) ==
    LET shortest == ShortestColumn(acc.columnHeights)
    IN  [columnHeights |-> [acc.columnHeights EXCEPT ![shortest] = @ + item.height],
         columns |-> [acc.columns EXCEPT ![shortest] = Append(@, item)]]

RECURSIVE DistributeLoop(_, _, _)
DistributeLoop(items, i, acc) ==
    IF i > Len(items) THEN acc
    ELSE DistributeLoop(items, i + 1, Distribute(acc, items[i]))

\* distributeToColumns(items, numColumns)
distributeToColumns(items, n) ==
    DistributeLoop(items, 1, [columnHeights |-> ZeroHeights(n),
                              columns |-> [c \in 1..n |-> <<>>]]).columns

\* ------------------------------------------- insertion-point resolver
\* sameColumnItems.sort((a, b) => a.pos.y - b.pos.y): a stable sort, done
\* here by inserting each entry after the entries whose y is not larger
InsertByY(sorted, e) ==
    LET n == Cardinality({i \in 1..Len(sorted) : sorted[i].pos.y <= e.pos.y})
    IN  SubSeq(sorted, 1, n) \o <<e>> \o SubSeq(sorted, n + 1, Len(sorted))

RECURSIVE SortByY(_, _, _)
SortByY(entries, i, sorted) ==
    IF i > Len(entries) THEN sorted
    ELSE SortByY(entries, i + 1, InsertByY(sorted, entries[i]))

RECURSIVE SameColumnFrom(_, _, _, _, _, _)
\* the loop that collects {item, originalIndex, pos} of the filtered items
\* whose column, floor(pos.x / (columnWidth + columnGap)), is the drag's
SameColumnFrom(filteredData, positions, i, step, clampedColumn, acc) ==
    IF i > Len(filteredData) THEN acc
    ELSE LET id == filteredData[i].id
         IN  IF id \notin DOMAIN positions
             THEN SameColumnFrom(filteredData, positions, i + 1, step, clampedColumn, acc)
             ELSE SameColumnFrom(filteredData, positions, i + 1, step, clampedColumn,
                    IF positions[id].x \div step = clampedColumn
                    THEN Append(acc, [originalIndex |-> i - 1, pos |-> positions[id]])
                    ELSE acc)

RECURSIVE GlobalScanFrom(_, _, _, _, _)
\* the fallback loop over all items: insertIndex = i + 1 for every item whose
\* vertical midpoint is above the drag's; centre coordinates are doubled
GlobalScanFrom(filteredData, positions, i, dragCenterY2, insertIndex) ==
    IF i > Len(filteredData) THEN insertIndex
    ELSE LET id == filteredData[i].id
         IN  IF id \notin DOMAIN positions
             THEN GlobalScanFrom(filteredData, positions, i + 1, dragCenterY2, insertIndex)
             ELSE GlobalScanFrom(filteredData, positions, i + 1, dragCenterY2,
                    IF dragCenterY2 > 2 * positions[id].y + positions[id].height
                    THEN i ELSE insertIndex)

RECURSIVE ThresholdScanFrom(_, _, _)
\* the loop over the sorted same-column items: the first one with
\* dragCenterY < pos.y + pos.height * 1, else just after the last
ThresholdScanFrom(sorted, i, dragCenterY2) ==
    IF i > Len(sorted) THEN sorted[Len(sorted)].originalIndex + 1
    ELSE IF dragCenterY2 < 2 * (sorted[i].pos.y + sorted[i].pos.height * 1)
         THEN sorted[i].originalIndex
         ELSE ThresholdScanFrom(sorted, i + 1, dragCenterY2)

\* findInsertIndex(dragX, dragY, dragWidth, dragHeight, data, positions,
\*                 keyExtractor, dragId, currentInsertIndex, numColumns, columnGap)
findInsertIndex(dragX, dragY, dragWidth, dragHeight, arr, positions, dragId, currentInsertIndex, n, cGap) ==
    LET dragCenterX2 == 2 * dragX + dragWidth
        dragCenterY2 == 2 * dragY + dragHeight
        filteredData == FilterOut(arr, dragId)
    IN  IF Len(filteredData) = 0 THEN 0
        ELSE IF DOMAIN positions = {} THEN 0
        ELSE LET firstPos == positions[CHOOSE q \in DOMAIN positions : TRUE]
                 columnWidth == firstPos.width
                 dragColumn == dragCenterX2 \div (2 * (columnWidth + cGap))
                 clampedColumn == Max2(0, Min2(dragColumn, n - 1))
                 sameColumnItems ==
                     SameColumnFrom(filteredData, positions, 1, columnWidth + cGap,
                                    clampedColumn, <<>>)
             IN  IF Len(sameColumnItems) = 0
                 THEN GlobalScanFrom(filteredData, positions, 1, dragCenterY2, 0)
                 ELSE ThresholdScanFrom(SortByY(sameColumnItems, 1, <<>>), 1, dragCenterY2)

\* ------------------------------------------------ drag session (flat list)
VARIABLES
    data,                    \* prop: the collection the owning application supplies
    sortEnabled,             \* prop
    containerWidth,          \* useState(0), set by handleLayout
    activeDragId,            \* useState(null)
    orderedData,             \* useState(data): the Logical Order
    orderedDataRef,          \* useRef(orderedData)
    targetInsertIndex,       \* useState(-1): the tentative insert index
    isDropAnimating,         \* useState(false): the Dropping flag
    dragStartIndexRef,       \* useRef(-1)
    layoutWithoutDraggedRef, \* useRef(null): << >> is null, <<layout>> a layout
    timers,                  \* pending setTimeout callbacks of handleDragEnd
    emitted,                 \* callbacks emitted by the last handler call, in order
    gestures,                \* keys whose pan gesture has started and not ended
    preDrag,                 \* history: orderedDataRef when the drag in progress started
    preDragWidth,            \* history: containerWidth when it started, -1 if none
    handlers,                \* the props and handlers each memoised MasonryItem holds
    items,                   \* layout functions: the `items` argument
    columnCount,             \* layout functions: the `numColumns` argument
    gap,                     \* layout functions: the `gap` / `columnGap` argument
    verticalGap,             \* calculateLayout: the `rowGap` argument
    computed,                \* << >>, or <<r>> for the result r of a layout call
    columnsRef,              \* bucketed list: useRef(columns), the column buckets
    balanceMoves,            \* history: the balancing moves of the last dragChange
    frame,                   \* auto-scroll: the props and shared values of frameCallback
    drag                     \* dragged item: the props and shared values of MasonryItem

vars == <<data, sortEnabled, containerWidth, activeDragId, orderedData,
          orderedDataRef, targetInsertIndex, isDropAnimating, dragStartIndexRef,
          layoutWithoutDraggedRef, timers, emitted, gestures, preDrag,
          preDragWidth, handlers, items, columnCount, gap, verticalGap, computed,
          columnsRef, balanceMoves, frame, drag>>

\* the bucketed list's dragChange, the auto-scroll frames and the dragged
\* item are modelled on their own; elsewhere they are not mounted
workletVars == <<columnsRef, balanceMoves, frame, drag>>

NotMounted ==
    /\ columnsRef = <<>>
    /\ balanceMoves = <<>>
    /\ frame = <<>>
    /\ drag = <<>>

\* the arguments and the result of the layout functions called on their own
layoutVars == <<items, columnCount, gap, verticalGap, computed>>

\* the list component and its gestures; `handlers` is << >> where every
\* gesture is taken to call the handler of the latest render
listVars == <<data, sortEnabled, containerWidth, activeDragId, orderedData,
              orderedDataRef, targetInsertIndex, isDropAnimating, dragStartIndexRef,
              layoutWithoutDraggedRef, timers, emitted, gestures, preDrag,
              preDragWidth, handlers>>

\* the component's props, state and refs as one record
Cur == [data |-> data, sortEnabled |-> sortEnabled, containerWidth |-> containerWidth,
        activeDragId |-> activeDragId, orderedData |-> orderedData,
        orderedDataRef |-> orderedDataRef, targetInsertIndex |-> targetInsertIndex,
        isDropAnimating |-> isDropAnimating, dragStartIndexRef |-> dragStartIndexRef,
        layoutWithoutDraggedRef |-> layoutWithoutDraggedRef, timers |-> timers,
        emitted |-> <<>>]

\* a variant of displayData that inserts the dragged item at the tentative
\* index without taking it out of its place first
displayDataKeepingDragged(ordered, active, target) ==
    IF active = NULL \/ target < 0 THEN ordered
    ELSE IF ~Has(ordered, active) THEN ordered
    ELSE SpliceIn(ordered, target, Find(ordered, active))

\* const displayData = useMemo(...)
displayDataOf(ordered, active, target) ==
    IF active = NULL \/ target < 0 THEN ordered
    ELSE IF ~Has(ordered, active) THEN ordered
    ELSE SpliceIn(FilterOut(ordered, active), target, Find(ordered, active))

displayData == displayDataOf(orderedData, activeDragId, targetInsertIndex)

\* const layout = useMemo(...)
layout ==
    IF containerWidth = 0 THEN [positions |-> EmptyObject, totalHeight |-> 0]
    ELSE calculateLayout(displayData, numColumns, containerWidth, rowGap, columnGap)

\* ---------------------------------------------------------------- handlers
\* Each handler maps the component record before the call to the record after
\* it; `emitted` collects the callbacks it invokes.

\* a variant of handleDragStart whose tentative insert index is the front of
\* the list
handleDragStartAtFront(s, id) ==
    IF ~s.sortEnabled THEN s
    ELSE LET withoutDragged == FilterOut(s.orderedDataRef, id)
             currentIndex == FindIndex(s.orderedDataRef, id)
         IN  [s EXCEPT
                !.activeDragId = id,
                !.layoutWithoutDraggedRef =
                    IF s.containerWidth > 0
                    THEN <<calculateLayout(withoutDragged, numColumns, s.containerWidth,
                                           rowGap, columnGap)>>
                    ELSE @,
                !.dragStartIndexRef = currentIndex,
                !.targetInsertIndex = 0,
                !.emitted = <<[type |-> "dragStart", key |-> id, fromIndex |-> currentIndex]>>]

\* const handleDragStart = useCallback((id) => {...})
handleDragStart(s, id) ==
    IF ~s.sortEnabled THEN s
    ELSE LET withoutDragged == FilterOut(s.orderedDataRef, id)
             currentIndex == FindIndex(s.orderedDataRef, id)
             indexInFiltered ==
                 Len(FilterOut(Slice0(s.orderedDataRef, currentIndex), id))
         IN  [s EXCEPT
                !.activeDragId = id,
                !.layoutWithoutDraggedRef =
                    IF s.containerWidth > 0
                    THEN <<calculateLayout(withoutDragged, numColumns, s.containerWidth,
                                           rowGap, columnGap)>>
                    ELSE @,
                !.dragStartIndexRef = currentIndex,
                !.targetInsertIndex = indexInFiltered,
                !.emitted = <<[type |-> "dragStart", key |-> id, fromIndex |-> currentIndex]>>]

\* a variant of commitDrop that does not put the dragged item back
commitDropWithoutReinsert(s, id) ==
    IF s.activeDragId # NULL /\ s.targetInsertIndex >= 0 /\ Has(s.orderedDataRef, s.activeDragId)
    THEN LET fromIndex == s.dragStartIndexRef
             newData == FilterOut(s.orderedDataRef, s.activeDragId)
             toIndex == FindIndex(newData, s.activeDragId)
         IN  [s EXCEPT
                !.orderedDataRef = newData,
                !.orderedData = newData,
                !.emitted =
                    <<[type |-> "dragEnd", key |-> id, fromIndex |-> fromIndex,
                       toIndex |-> toIndex, data |-> newData]>>
                    \o (IF fromIndex # toIndex
                        THEN <<[type |-> "orderChange", key |-> id,
                                fromIndex |-> fromIndex, toIndex |-> toIndex]>>
                        ELSE <<>>)]
    ELSE s

\* a variant of commitDrop that never calls onOrderChange
commitDropWithoutOrderChange(s, id) ==
    IF s.activeDragId # NULL /\ s.targetInsertIndex >= 0 /\ Has(s.orderedDataRef, s.activeDragId)
    THEN LET fromIndex == s.dragStartIndexRef
             draggedItem == Find(s.orderedDataRef, s.activeDragId)
             withoutDragged == FilterOut(s.orderedDataRef, s.activeDragId)
             newData == SpliceIn(withoutDragged, s.targetInsertIndex, draggedItem)
             toIndex == FindIndex(newData, s.activeDragId)
         IN  [s EXCEPT
                !.orderedDataRef = newData,
                !.orderedData = newData,
                !.emitted =
                    <<[type |-> "dragEnd", key |-> id, fromIndex |-> fromIndex,
                       toIndex |-> toIndex, data |-> newData]>>]
    ELSE s

\* the `if (activeDragId && targetInsertIndex >= 0)` block of handleDragEnd
commitDrop(s, id) ==
    IF s.activeDragId # NULL /\ s.targetInsertIndex >= 0 /\ Has(s.orderedDataRef, s.activeDragId)
    THEN LET fromIndex == s.dragStartIndexRef
             draggedItem == Find(s.orderedDataRef, s.activeDragId)
             withoutDragged == FilterOut(s.orderedDataRef, s.activeDragId)
             newData == SpliceIn(withoutDragged, s.targetInsertIndex, draggedItem)
             toIndex == FindIndex(newData, s.activeDragId)
         IN  [s EXCEPT
                !.orderedDataRef = newData,
                !.orderedData = newData,
                !.emitted =
                    <<[type |-> "dragEnd", key |-> id, fromIndex |-> fromIndex,
                       toIndex |-> toIndex, data |-> newData]>>
                    \o (IF fromIndex # toIndex
                        THEN <<[type |-> "orderChange", key |-> id,
                                fromIndex |-> fromIndex, toIndex |-> toIndex]>>
                        ELSE <<>>)]
    ELSE s

\* const handleDragEnd = useCallback((id) => {...})
handleDragEnd(s, id) ==
    IF ~s.sortEnabled THEN s
    ELSE [commitDrop(s, id) EXCEPT
            !.activeDragId = NULL,
            !.targetInsertIndex = -1,
            !.isDropAnimating = TRUE,
            !.timers = @ + 1,
            !.layoutWithoutDraggedRef = <<>>,
            !.dragStartIndexRef = -1]

\* a variant of handleDragChange that also stores the display order it
\* resolved as the Logical Order
handleDragChangeStoringOrder(s, id, x, y) ==
    IF ~s.sortEnabled \/ s.layoutWithoutDraggedRef = <<>> THEN s
    ELSE IF ~Has(s.orderedDataRef, id) THEN s
    ELSE LET draggedItem == Find(s.orderedDataRef, id)
             columnWidth == ColumnWidth(s.containerWidth, numColumns, columnGap)
             withoutDragged == FilterOut(s.orderedDataRef, id)
             newTargetIndex ==
                 findInsertIndex(x, y, columnWidth, draggedItem.height, withoutDragged,
                                 s.layoutWithoutDraggedRef[1].positions, id,
                                 s.targetInsertIndex, numColumns, columnGap)
         IN  [s EXCEPT !.targetInsertIndex = newTargetIndex,
                       !.orderedData = displayDataOf(s.orderedDataRef, id, newTargetIndex)]

\* a variant of handleDragChange that reports every new tentative index to
\* onOrderChange
handleDragChangeEmitting(s, id, x, y) ==
    IF ~s.sortEnabled \/ s.layoutWithoutDraggedRef = <<>> THEN s
    ELSE IF ~Has(s.orderedDataRef, id) THEN s
    ELSE LET draggedItem == Find(s.orderedDataRef, id)
             columnWidth == ColumnWidth(s.containerWidth, numColumns, columnGap)
             withoutDragged == FilterOut(s.orderedDataRef, id)
             newTargetIndex ==
                 findInsertIndex(x, y, columnWidth, draggedItem.height, withoutDragged,
                                 s.layoutWithoutDraggedRef[1].positions, id,
                                 s.targetInsertIndex, numColumns, columnGap)
         IN  IF newTargetIndex # s.targetInsertIndex
             THEN [s EXCEPT !.targetInsertIndex = newTargetIndex,
                            !.emitted = <<[type |-> "orderChange", key |-> id,
                                           fromIndex |-> s.dragStartIndexRef,
                                           toIndex |-> newTargetIndex]>>]
             ELSE s

\* const handleDragChange = useCallback((id, x, y, screenY) => {...})
handleDragChange(s, id, x, y) ==
    IF ~s.sortEnabled \/ s.layoutWithoutDraggedRef = <<>> THEN s
    ELSE IF ~Has(s.orderedDataRef, id) THEN s
    ELSE LET draggedItem == Find(s.orderedDataRef, id)
             columnWidth == ColumnWidth(s.containerWidth, numColumns, columnGap)
             withoutDragged == FilterOut(s.orderedDataRef, id)
             newTargetIndex ==
                 findInsertIndex(x, y, columnWidth, draggedItem.height, withoutDragged,
                                 s.layoutWithoutDraggedRef[1].positions, id,
                                 s.targetInsertIndex, numColumns, columnGap)
         IN  IF newTargetIndex # s.targetInsertIndex
             THEN [s EXCEPT !.targetInsertIndex = newTargetIndex]
             ELSE s

\* the callback of the setTimeout of handleDragEnd
settleTimer(s) == [s EXCEPT !.isDropAnimating = FALSE, !.timers = @ - 1]

\* const handleLayout = (e) => setContainerWidth(e.nativeEvent.layout.width)
handleLayout(s, width) == [s EXCEPT !.containerWidth = width]

\* a variant of syncExternalData without the `if (!activeDragId)` condition
syncExternalDataWhileDragging(r) ==
    IF r.isDropAnimating THEN r
    ELSE [r EXCEPT !.orderedData = r.data, !.orderedDataRef = r.data,
                   !.targetInsertIndex = -1]

\* The external data sync effect, useEffect(..., [data, activeDragId,
\* dropAnimationDuration, keyExtractor, isDropAnimating]), run on the record r
\* of the render that follows a handler: it runs when one of its dependencies
\* changed, and adopts `data` unless dropping or dragging.
syncExternalData(r) ==
    IF r.isDropAnimating THEN r
    ELSE IF r.activeDragId = NULL
         THEN [r EXCEPT !.orderedData = r.data, !.orderedDataRef = r.data,
                        !.targetInsertIndex = -1]
         ELSE r

\* The render after a handler and its effects: orderedDataRef.current =
\* orderedData when orderedData changed, then the external data sync effect.
Rendered(r) ==
    LET r1 == IF r.orderedData # orderedData
              THEN [r EXCEPT !.orderedDataRef = r.orderedData] ELSE r
    IN  IF r1.data # data \/ r1.activeDragId # activeDragId
           \/ r1.isDropAnimating # isDropAnimating
        THEN syncExternalData(r1)
        ELSE r1

\* the step to the record r a handler returned
Step(r) ==
    \E h \in {r} : \E q \in {Rendered(h)} :
        /\ data' = q.data
        /\ sortEnabled' = q.sortEnabled
        /\ containerWidth' = q.containerWidth
        /\ activeDragId' = q.activeDragId
        /\ orderedData' = q.orderedData
        /\ orderedDataRef' = q.orderedDataRef
        /\ targetInsertIndex' = q.targetInsertIndex
        /\ isDropAnimating' = q.isDropAnimating
        /\ dragStartIndexRef' = q.dragStartIndexRef
        /\ layoutWithoutDraggedRef' = q.layoutWithoutDraggedRef
        /\ timers' = q.timers
        /\ emitted' = q.emitted
        /\ handlers' = handlers
        /\ UNCHANGED <<layoutVars, workletVars>>

\* ----------------------------------------------------------------- inputs
\* the collections the owning application may supply next: the current one
\* with one item removed, with one missing item appended, or the collection it
\* received last as `data` of the drag-end callback (the example app's
\* handleDragEnd: setData(params.data))
Collections ==
    {FilterOut(data, k) : k \in IdsOf(data)}
    \cup {Append(data, it) : it \in {u \in Universe : u.id \notin IdsOf(data)}}
    \cup {orderedData}

\* the item of the model's universe at each position, in key order
InitialData == [i \in 1..MaxItems |-> mockItem(i)]

\* left edges of the dragged rectangle: over column 0 and over column 1
DragXs == {0, ColumnWidth(MeasuredWidth, numColumns, columnGap) + columnGap}
\* top edges of the dragged rectangle: at the top of the list, and low enough
\* for its centre to be below every item
DragYs == {0, 130 * (MaxItems - 1)}
Widths == {0, MeasuredWidth}

\* ---------------------------------------------------------------- actions
Init ==
    /\ data = InitialData
    /\ sortEnabled = TRUE
    /\ containerWidth = 0
    /\ activeDragId = NULL
    /\ orderedData = InitialData
    /\ orderedDataRef = InitialData
    /\ targetInsertIndex = -1
    /\ isDropAnimating = FALSE
    /\ dragStartIndexRef = -1
    /\ layoutWithoutDraggedRef = <<>>
    /\ timers = 0
    /\ emitted = <<>>
    /\ gestures = {}
    /\ preDrag = <<>>
    /\ preDragWidth = -1
    /\ handlers = <<>>
    /\ items = <<>>
    /\ columnCount = numColumns
    /\ gap = columnGap
    /\ verticalGap = rowGap
    /\ computed = <<>>
    /\ NotMounted

\* panGesture.onStart -> runOnJS(onDragStart)(id), for an item of the list
DragStart(k) ==
    /\ k \in IdsOf(orderedData)
    /\ k \notin gestures
    /\ Step(handleDragStart(Cur, k))
    /\ gestures' = gestures \cup {k}
    /\ preDrag' = IF sortEnabled THEN orderedDataRef ELSE preDrag
    /\ preDragWidth' = IF sortEnabled THEN containerWidth ELSE preDragWidth

\* panGesture.onUpdate -> runOnJS(onDragChange)(id, absoluteX, absoluteY, screenY)
DragChange(k, x, y) ==
    /\ k \in gestures
    /\ Step(handleDragChange(Cur, k, x, y))
    /\ UNCHANGED <<gestures, preDrag, preDragWidth>>

\* panGesture.onEnd -> runOnJS(onDragEnd)(id), the finger was lifted
DragEnd(k) ==
    /\ k \in gestures
    /\ timers < MaxTimers
    /\ Step(handleDragEnd(Cur, k))
    /\ gestures' = gestures \ {k}
    /\ preDrag' = IF sortEnabled THEN <<>> ELSE preDrag
    /\ preDragWidth' = IF sortEnabled THEN -1 ELSE preDragWidth

\* The host cancels the active gesture. The pan gesture registers onStart,
\* onUpdate and onEnd only, and onEnd is what the gesture handler calls when an
\* active gesture finishes, cancelled or not: a cancellation is a DragEnd step.
DragCancel(k) == DragEnd(k)

SettleTimer ==
    /\ timers > 0
    /\ Step(settleTimer(Cur))
    /\ UNCHANGED <<gestures, preDrag, preDragWidth>>

\* the owning application supplies another collection
ExternalData(d) ==
    /\ d # data
    /\ Step([Cur EXCEPT !.data = d])
    /\ UNCHANGED <<gestures, preDrag, preDragWidth>>

Layout(w) ==
    /\ w # containerWidth
    /\ Step(handleLayout(Cur, w))
    /\ UNCHANGED <<gestures, preDrag, preDragWidth>>

SetSortEnabled ==
    /\ Step([Cur EXCEPT !.sortEnabled = ~sortEnabled])
    /\ UNCHANGED <<gestures, preDrag, preDragWidth>>

Next ==
    \/ \E k \in Keys : DragStart(k)
    \/ \E k \in Keys, x \in DragXs, y \in DragYs : DragChange(k, x, y)
    \/ \E k \in Keys : DragEnd(k)
    \/ SettleTimer
    \/ \E d \in Collections : ExternalData(d)
    \/ \E w \in Widths : Layout(w)
    \/ SetSortEnabled

Spec == Init /\ [][Next]_vars

\* ------------------------------- the list with its memoised MasonryItems
\* Each MasonryItem is wrapped in memo(MasonryItemComponent, arePropsEqual):
\* it renders again, and builds its pan gesture around the handlers of that
\* render, only when arePropsEqual finds a difference. `handlers` maps the
\* key of every mounted item to the props of its last render and to the
\* state its handlers closed over.

\* const arePropsEqual = (prev, next) => ...
arePropsEqual(prev, next) ==
    IF prev.x # next.x \/ prev.y # next.y \/ prev.width # next.width \/ prev.height # next.height
    THEN FALSE
    ELSE IF prev.isDragging # next.isDragging THEN FALSE
    ELSE IF prev.isAnyDragging # next.isAnyDragging THEN FALSE
    ELSE IF prev.id # next.id THEN FALSE
    ELSE IF prev.sortEnabled # next.sortEnabled THEN FALSE
    ELSE IF prev.activeItemScale # next.activeItemScale
            \/ prev.activeItemOpacity # next.activeItemOpacity
    THEN FALSE
    ELSE IF prev.isNewItem # next.isNewItem THEN FALSE
    ELSE TRUE

\* the props <MasonryItem ...> gets for the item k at `pos` in the render of
\* the record q, as far as arePropsEqual looks at them; the scale and the
\* opacity are named by the prop they are taken from
ItemProps(q, k, pos) ==
    LET isDragging == q.activeDragId = k
        which == IF isDragging THEN "active"
                 ELSE IF q.activeDragId # NULL THEN "inactive" ELSE "rest"
    IN  [id |-> k, x |-> pos.x, y |-> pos.y, width |-> pos.width, height |-> pos.height,
         isDragging |-> isDragging, isAnyDragging |-> q.activeDragId # NULL,
         sortEnabled |-> q.sortEnabled, activeItemScale |-> which,
         activeItemOpacity |-> which, isNewItem |-> FALSE]

\* the items after the render of the record q: an item that has a position
\* is mounted; it keeps the handlers of its last render if arePropsEqual
\* holds, and else holds those of this render, which close over q
MemoisedItems(held, q) ==
    LET positions ==
            IF q.containerWidth = 0 THEN EmptyObject
            ELSE calculateLayout(displayDataOf(q.orderedData, q.activeDragId,
                                               q.targetInsertIndex),
                                 numColumns, q.containerWidth, rowGap, columnGap).positions
    IN  [k \in DOMAIN positions |->
            IF k \in DOMAIN held /\ arePropsEqual(held[k].props, ItemProps(q, k, positions[k]))
            THEN held[k]
            ELSE [props |-> ItemProps(q, k, positions[k]),
                  activeDragId |-> q.activeDragId,
                  targetInsertIndex |-> q.targetInsertIndex,
                  sortEnabled |-> q.sortEnabled,
                  containerWidth |-> q.containerWidth]]

\* the component as the handlers held by the item k see it: the state of
\* the render they were made in, and the refs as they are now
Held(k) ==
    [Cur EXCEPT !.activeDragId = handlers[k].activeDragId,
                !.targetInsertIndex = handlers[k].targetInsertIndex,
                !.sortEnabled = handlers[k].sortEnabled,
                !.containerWidth = handlers[k].containerWidth]

\* the record after handleDragStart or handleDragEnd returned r for the held
\* view v: both set the active key and the tentative index unless they
\* return at once, and neither sets a prop or the container width
AfterHeld(v, r) ==
    IF ~v.sortEnabled THEN Cur
    ELSE [r EXCEPT !.sortEnabled = sortEnabled, !.containerWidth = containerWidth]

\* the record after handleDragChange returned r for the held view v: it
\* calls setTargetInsertIndex, and nothing else, if it resolved an index
\* other than the one it closed over
AfterHeldChange(v, r) ==
    IF r.targetInsertIndex # v.targetInsertIndex
    THEN [Cur EXCEPT !.targetInsertIndex = r.targetInsertIndex]
    ELSE Cur

\* the step to the record r a handler returned, and the render of the items
StepMemo(r) ==
    \E h \in {r} : \E q \in {Rendered(h)} :
        /\ data' = q.data
        /\ sortEnabled' = q.sortEnabled
        /\ containerWidth' = q.containerWidth
        /\ activeDragId' = q.activeDragId
        /\ orderedData' = q.orderedData
        /\ orderedDataRef' = q.orderedDataRef
        /\ targetInsertIndex' = q.targetInsertIndex
        /\ isDropAnimating' = q.isDropAnimating
        /\ dragStartIndexRef' = q.dragStartIndexRef
        /\ layoutWithoutDraggedRef' = q.layoutWithoutDraggedRef
        /\ timers' = q.timers
        /\ emitted' = q.emitted
        /\ handlers' = MemoisedItems(handlers, q)
        /\ UNCHANGED <<layoutVars, workletVars>>

\* a list of MaxLen items
MemoData == [i \in 1..MaxLen |-> mockItem(i)]

\* the list after its first layout: measured, every item mounted
InitMemo ==
    /\ data = MemoData
    /\ sortEnabled = TRUE
    /\ containerWidth = MeasuredWidth
    /\ activeDragId = NULL
    /\ orderedData = MemoData
    /\ orderedDataRef = MemoData
    /\ targetInsertIndex = -1
    /\ isDropAnimating = FALSE
    /\ dragStartIndexRef = -1
    /\ layoutWithoutDraggedRef = <<>>
    /\ timers = 0
    /\ emitted = <<>>
    /\ gestures = {}
    /\ preDrag = <<>>
    /\ preDragWidth = -1
    /\ handlers = MemoisedItems(EmptyObject, Cur)
    /\ items = <<>>
    /\ columnCount = numColumns
    /\ gap = columnGap
    /\ verticalGap = rowGap
    /\ computed = <<>>
    /\ NotMounted

\* panGesture.onStart of the mounted item k -> runOnJS(onDragStart)(id)
MemoDragStart(k) ==
    /\ k \in DOMAIN handlers
    /\ k \notin gestures
    /\ StepMemo(AfterHeld(Held(k), handleDragStart(Held(k), k)))
    /\ gestures' = gestures \cup {k}
    /\ preDrag' = IF sortEnabled THEN orderedDataRef ELSE preDrag
    /\ preDragWidth' = IF sortEnabled THEN containerWidth ELSE preDragWidth

\* panGesture.onUpdate of the item k -> runOnJS(onDragChange)(id, ...)
MemoDragChange(k, x, y) ==
    /\ k \in gestures
    /\ k \in DOMAIN handlers
    /\ StepMemo(AfterHeldChange(Held(k), handleDragChange(Held(k), k, x, y)))
    /\ UNCHANGED <<gestures, preDrag, preDragWidth>>

\* panGesture.onEnd of the item k -> runOnJS(onDragEnd)(id)
MemoDragEnd(k) ==
    /\ k \in gestures
    /\ k \in DOMAIN handlers
    /\ timers < MaxTimers
    /\ StepMemo(AfterHeld(Held(k), handleDragEnd(Held(k), k)))
    /\ gestures' = gestures \ {k}
    /\ preDrag' = IF sortEnabled THEN <<>> ELSE preDrag
    /\ preDragWidth' = IF sortEnabled THEN -1 ELSE preDragWidth

\* the timer of handleDragEnd fires
MemoSettleTimer ==
    /\ timers > 0
    /\ StepMemo(settleTimer(Cur))
    /\ UNCHANGED <<gestures, preDrag, preDragWidth>>

\* the owning application toggles sortEnabled
MemoSetSortEnabled ==
    /\ StepMemo([Cur EXCEPT !.sortEnabled = ~sortEnabled])
    /\ UNCHANGED <<gestures, preDrag, preDragWidth>>

NextMemo ==
    \/ \E k \in IdsOf(MemoData) : MemoDragStart(k)
    \/ \E k \in IdsOf(MemoData), x \in DragXs, y \in DragYs : MemoDragChange(k, x, y)
    \/ \E k \in IdsOf(MemoData) : MemoDragEnd(k)
    \/ MemoSettleTimer
    \/ MemoSetSortEnabled

SpecMemo == InitMemo /\ [][NextMemo]_vars

\* the list under an owning application that keeps passing the collection it
\* passed at first: every step but a new `data` prop
NextSameData ==
    \/ \E k \in Keys : DragStart(k)
    \/ \E k \in Keys, x \in DragXs, y \in DragYs : DragChange(k, x, y)
    \/ \E k \in Keys : DragEnd(k)
    \/ SettleTimer
    \/ \E w \in Widths : Layout(w)
    \/ SetSortEnabled

SpecSameData == Init /\ [][NextSameData]_vars

\* ------------------------------------- the layout functions on their own
\* item heights: zero, and two heights whose multiples do not coincide
Heights == {0, 40, 100}
Gaps == {0, 10}

\* the lists of up to MaxLen items with the unique keys "1", "2", ...
ItemLists ==
    {[i \in 1..n |-> [id |-> ToString(i), height |-> h[i]]] :
        n \in 0..MaxLen, h \in [1..MaxLen -> Heights]}

\* a container width for which the column width is whole, cf. MeasuredWidth
WidthFor(g) == 360 - g

InitLayout ==
    /\ data = InitialData
    /\ sortEnabled = TRUE
    /\ containerWidth = 0
    /\ activeDragId = NULL
    /\ orderedData = InitialData
    /\ orderedDataRef = InitialData
    /\ targetInsertIndex = -1
    /\ isDropAnimating = FALSE
    /\ dragStartIndexRef = -1
    /\ layoutWithoutDraggedRef = <<>>
    /\ timers = 0
    /\ emitted = <<>>
    /\ gestures = {}
    /\ preDrag = <<>>
    /\ preDragWidth = -1
    /\ handlers = <<>>
    /\ items \in ItemLists
    /\ columnCount \in 1..MaxCols
    /\ gap \in Gaps
    /\ verticalGap \in Gaps
    /\ computed = <<>>
    /\ NotMounted

\* calculateColumnLayout({columns: distributeToColumns(items, numColumns), ...})
CallColumnLayout ==
    /\ computed = <<>>
    /\ computed' =
         <<[by |-> "calculateColumnLayout", rowGap |-> gap,
            columns |-> distributeToColumns(items, columnCount),
            layout |-> calculateColumnLayout(distributeToColumns(items, columnCount),
                                            columnCount, WidthFor(gap), gap)]>>
    /\ UNCHANGED <<items, columnCount, gap, verticalGap>>
    /\ UNCHANGED <<listVars, workletVars>>

\* calculateLayout(items, numColumns, containerWidth, rowGap, columnGap, keyExtractor)
CallLayout ==
    /\ computed = <<>>
    /\ computed' =
         <<[by |-> "calculateLayout", rowGap |-> verticalGap,
            layout |-> calculateLayout(items, columnCount, WidthFor(gap),
                                      verticalGap, gap)]>>
    /\ UNCHANGED <<items, columnCount, gap, verticalGap>>
    /\ UNCHANGED <<listVars, workletVars>>

\* reorderItems(items, fromIndex, toIndex) with two indices of the list
CallReorder(fromIndex, toIndex) ==
    /\ computed = <<>>
    /\ LET call == reorderItems(items, fromIndex, toIndex)
       IN  /\ items' = call.items
           /\ computed' = <<[by |-> "reorderItems", fromIndex |-> fromIndex,
                             toIndex |-> toIndex, result |-> call.result]>>
    /\ UNCHANGED <<columnCount, gap, verticalGap>>
    /\ UNCHANGED <<listVars, workletVars>>

NextLayout ==
    \/ CallColumnLayout
    \/ CallLayout
    \/ \E fromIndex, toIndex \in 0..(Len(items) - 1) : CallReorder(fromIndex, toIndex)

SpecLayout == InitLayout /\ [][NextLayout]_vars

\* the list's state before anything has happened, as in Init
ListAtRest ==
    /\ data = InitialData
    /\ sortEnabled = TRUE
    /\ activeDragId = NULL
    /\ orderedData = InitialData
    /\ orderedDataRef = InitialData
    /\ targetInsertIndex = -1
    /\ isDropAnimating = FALSE
    /\ dragStartIndexRef = -1
    /\ layoutWithoutDraggedRef = <<>>
    /\ timers = 0
    /\ emitted = <<>>
    /\ gestures = {}
    /\ preDrag = <<>>
    /\ preDragWidth = -1
    /\ handlers = <<>>

\* ------------------------------ the layout functions on any configuration
\* gaps and container widths of both signs; the column width stays whole
AnyGaps == {-10, 0, 10}
AnyWidthsFor(g) == {WidthFor(g), -WidthFor(-g)}
AnyColumnCounts == {-1} \cup (1..MaxCols)

\* `new Array(numColumns)` throws a RangeError for a negative length; nothing
\* else in the two layout functions looks at the configuration
ArrayOfLength(n) == IF n < 0 THEN "RangeError" ELSE NULL

InitConfig ==
    /\ ListAtRest
    /\ items \in ItemLists
    /\ columnCount \in AnyColumnCounts
    /\ gap \in AnyGaps
    /\ verticalGap \in AnyGaps
    /\ containerWidth \in AnyWidthsFor(gap)
    /\ computed = <<>>
    /\ NotMounted

\* calculateColumnLayout({columns: distributeToColumns(items, numColumns),
\* numColumns, containerWidth, gap}) with the configuration as it is
InvokeColumnLayout ==
    /\ computed = <<>>
    /\ computed' =
         <<[by |-> "calculateColumnLayout",
            error |-> ArrayOfLength(columnCount),
            layout |-> IF ArrayOfLength(columnCount) # NULL THEN <<>>
                       ELSE <<calculateColumnLayout(distributeToColumns(items, columnCount),
                                                    columnCount, containerWidth, gap)>>]>>
    /\ UNCHANGED <<items, columnCount, gap, verticalGap>>
    /\ UNCHANGED <<listVars, workletVars>>

\* calculateLayout(data, numColumns, containerWidth, rowGap, columnGap,
\* keyExtractor) with the configuration as it is
InvokeLayout ==
    /\ computed = <<>>
    /\ computed' =
         <<[by |-> "calculateLayout",
            error |-> ArrayOfLength(columnCount),
            layout |-> IF ArrayOfLength(columnCount) # NULL THEN <<>>
                       ELSE <<calculateLayout(items, columnCount, containerWidth,
                                              verticalGap, gap)>>]>>
    /\ UNCHANGED <<items, columnCount, gap, verticalGap>>
    /\ UNCHANGED <<listVars, workletVars>>

NextConfig ==
    \/ InvokeColumnLayout
    \/ InvokeLayout

SpecConfig == InitConfig /\ [][NextConfig]_vars

\* ------------------------------------ the bucketed list's handleDragChange
BALANCE_THRESHOLD == 300
BucketGap == 10

RECURSIVE ReduceHeight(_, _)
\* col.reduce((sum, item) => sum + item.height + 10, 0), over the first j items
ReduceHeight(col, j) ==
    IF j = 0 THEN 0 ELSE ReduceHeight(col, j - 1) + col[j].height + BucketGap

\* newCols.map(col => col.reduce(...))
ColHeights(cols) == [c \in 1..Len(cols) |-> ReduceHeight(cols[c], Len(cols[c]))]

RECURSIVE TallestFrom(_, _, _)
\* the scan `if (colHeights[c] > maxH) { maxH = colHeights[c]; maxColIdx = c; }`:
\* the lowest index among the greatest heights
TallestFrom(colHeights, c, best) ==
    IF c > Len(colHeights) THEN best
    ELSE TallestFrom(colHeights, c + 1,
                     IF colHeights[c] > colHeights[best] THEN c ELSE best)

\* maxH - minH of the column heights
Spread(cols) ==
    LET colHeights == ColHeights(cols)
    IN  colHeights[TallestFrom(colHeights, 2, 1)] - colHeights[ShortestColumn(colHeights)]

RECURSIVE SourceColFrom(_, _, _)
\* the scan for sourceColIndex: the 0-based index of the first column that
\* holds the dragged item, -1 if none does
SourceColFrom(cols, id, c) ==
    IF c >= Len(cols) THEN -1
    ELSE IF FindIndex(cols[c + 1], id) # -1 THEN c
    ELSE SourceColFrom(cols, id, c + 1)

\* a variant of ItemToMoveIdx that takes the last item whatever it is
ItemToMoveIdxLast(tallCol, id) == Len(tallCol) - 1

\* `let itemToMoveIdx = tallCol.length - 1; if (itemToMove.id === id)
\* itemToMoveIdx--`, for a column that is not empty
ItemToMoveIdx(tallCol, id) ==
    IF tallCol[Len(tallCol)].id = id THEN Len(tallCol) - 2 ELSE Len(tallCol) - 1

RECURSIVE BalanceLoop(_, _, _, _)
\* `while (!heightBalanced && iterations < 2)`: the columns after the loop and
\* the moves it made, each with the item moved, the last item of the column
\* it was taken from, the spread and the dragged item's column (0-based)
\* before and after it
BalanceLoop(newCols, id, iterations, moves) ==
    LET done == [columns |-> newCols, moves |-> moves]
        colHeights == ColHeights(newCols)
        minColIdx == ShortestColumn(colHeights)
        maxColIdx == TallestFrom(colHeights, 2, 1)
        tallCol == newCols[maxColIdx]
        itemToMoveIdx == ItemToMoveIdx(tallCol, id)
        balancingItem == tallCol[itemToMoveIdx + 1]
        spliced == [newCols EXCEPT ![maxColIdx] = SpliceOut(@, itemToMoveIdx)]
        pushed == [spliced EXCEPT ![minColIdx] = Append(@, balancingItem)]
    IN  IF iterations >= 2 THEN done
        ELSE IF colHeights[maxColIdx] - colHeights[minColIdx] > BALANCE_THRESHOLD
        THEN IF Len(tallCol) = 0 THEN done
             ELSE IF itemToMoveIdx >= 0
             THEN BalanceLoop(pushed, id, iterations + 1,
                              Append(moves, [item |-> balancingItem.id,
                                             before |-> Spread(newCols),
                                             after |-> Spread(pushed),
                                             dragged |-> id,
                                             tail |-> tallCol[Len(tallCol)].id,
                                             draggedFrom |-> SourceColFrom(newCols, id, 0),
                                             draggedTo |-> SourceColFrom(pushed, id, 0)]))
             ELSE done
        ELSE done

RECURSIVE TargetRowFrom(_, _, _, _, _)
\* the scan for targetRowIndex: the 0-based index of the first item of the
\* target column, the dragged one skipped, whose centre is below centerY
\* (coordinates doubled); the length of the column if there is none
TargetRowFrom(targetColItems, positions, id, centerY2, i) ==
    IF i >= Len(targetColItems) THEN Len(targetColItems)
    ELSE LET item == targetColItems[i + 1]
             pos == positions[item.id]
         IN  IF item.id # id /\ centerY2 < 2 * pos.y + pos.height THEN i
             ELSE TargetRowFrom(targetColItems, positions, id, centerY2, i + 1)

\* handleDragChange(id, x, y, screenY) of the bucketed list, with adjustedY
\* for y - autoScrollOffset.value and a measured (nonzero) containerWidth:
\* whether it got past its early returns, the new columns, the balancing
\* moves, and the columns as the insert or swap step left them
handleBucketDragChange(currentColumns, id, x, adjustedY, n, width) ==
    LET none == [changed |-> FALSE, columns |-> currentColumns, moves |-> <<>>,
                 placed |-> currentColumns]
        currentLayout == calculateColumnLayout(currentColumns, n, width, BucketGap)
        draggedItemPos == currentLayout.positions[id]
        columnWidth == ColumnWidth(width, n, BucketGap)
        targetColIndex ==
            Max2(0, Min2(n - 1, (2 * x + draggedItemPos.width) \div (2 * (columnWidth + BucketGap))))
        targetColItems == currentColumns[targetColIndex + 1]
        targetRowIndex == TargetRowFrom(targetColItems, currentLayout.positions, id,
                                        2 * adjustedY + draggedItemPos.height, 0)
        sourceColIndex == SourceColFrom(currentColumns, id, 0)
        sourceRowIndex == FindIndex(currentColumns[sourceColIndex + 1], id)
        finalTargetIndex ==
            IF sourceColIndex = targetColIndex /\ sourceRowIndex < targetRowIndex
            THEN targetRowIndex - 1 ELSE targetRowIndex
        sourceItem == currentColumns[sourceColIndex + 1][sourceRowIndex + 1]
        swapped ==
            LET targetItem == currentColumns[targetColIndex + 1][targetRowIndex + 1]
            IN  [currentColumns EXCEPT ![targetColIndex + 1][targetRowIndex + 1] = sourceItem,
                                       ![sourceColIndex + 1][sourceRowIndex + 1] = targetItem]
        inserted ==
            LET removed == [currentColumns EXCEPT ![sourceColIndex + 1] = SpliceOut(@, sourceRowIndex)]
            IN  [removed EXCEPT ![targetColIndex + 1] = SpliceIn(@, finalTargetIndex, sourceItem)]
        newCols ==
            IF sourceColIndex # targetColIndex /\ targetRowIndex < Len(targetColItems)
            THEN swapped ELSE inserted
        balanced == BalanceLoop(newCols, id, 0, <<>>)
    IN  IF id \notin DOMAIN currentLayout.positions THEN none
        ELSE IF sourceColIndex = -1 THEN none
        ELSE IF sourceColIndex = targetColIndex /\ sourceRowIndex = finalTargetIndex THEN none
        ELSE [changed |-> TRUE, columns |-> balanced.columns, moves |-> balanced.moves,
              placed |-> newCols]

\* item heights on both sides of the balance threshold
BucketHeights == {40, 400}

BucketItemLists ==
    {[i \in 1..n |-> [id |-> ToString(i), height |-> h[i]]] :
        n \in 1..MaxLen, h \in [1..MaxLen -> BucketHeights]}

\* a single column, the default number of columns, and one more
BucketColumnCounts == 1..(numColumns + 1)

\* the left edge of every column, and tops from above the grid to below it
BucketXs(n) == {c * (ColumnWidth(MeasuredWidth, n, BucketGap) + BucketGap) : c \in 0..(n - 1)}
BucketYs == {-10, 60, 500}

\* the bucketed list after its first layout: columns = useState(() =>
\* distributeToColumns(data, numColumns)), columnsRef = useRef(columns)
InitBucket ==
    /\ ListAtRest
    /\ containerWidth = MeasuredWidth
    /\ items \in BucketItemLists
    /\ columnCount \in BucketColumnCounts
    /\ gap = columnGap
    /\ verticalGap = rowGap
    /\ computed = <<>>
    /\ columnsRef = distributeToColumns(items, columnCount)
    /\ balanceMoves = <<>>
    /\ frame = <<>>
    /\ drag = <<>>

\* the throttled handleDragChange(id, x, y, screenY) of the bucketed list
BucketDragChange(id, x, adjustedY) ==
    /\ \E r \in {handleBucketDragChange(columnsRef, id, x, adjustedY, columnCount, containerWidth)} :
          /\ columnsRef' = r.columns
          /\ balanceMoves' = r.moves
    /\ UNCHANGED <<listVars, layoutVars, frame, drag>>

NextBucket ==
    \E id \in IdsOf(items), x \in BucketXs(columnCount), adjustedY \in BucketYs :
        BucketDragChange(id, x, adjustedY)

SpecBucket == InitBucket /\ [][NextBucket]_vars

\* --------------------------- the bucketed list under drags and new data
\* `items` is the data prop, `columnCount` numColumns, `columnsRef` the
\* columns state and the ref that follows it in the same render, `gestures`
\* the items whose pan gesture is active; the balancing moves are not
\* recorded here.

RECURSIVE FlatFrom(_, _)
\* columns.flat(), from column c on
FlatFrom(cols, c) == IF c > Len(cols) THEN <<>> ELSE cols[c] \o FlatFrom(cols, c + 1)

\* the effect with dependencies [data, numColumns, columns], numColumns
\* being what it was at the last run: the columns state it leaves
reseedEffect(cols, d, n, active) ==
    LET currentColumnIds == IdsOf(FlatFrom(cols, 1))
        dataIds == IdsOf(d)
        itemsAdded == \E i \in 1..Len(d) : d[i].id \notin currentColumnIds
        itemsRemoved == \E id \in currentColumnIds : id \notin dataIds
        itemCountChanged == itemsAdded \/ itemsRemoved
    IN  IF itemCountChanged /\ active = NULL THEN distributeToColumns(d, n) ELSE cols

\* the items of this list: every other one taller than the balance threshold
BucketListItem(i) == [id |-> ToString(i), height |-> IF i % 2 = 1 THEN 400 ELSE 40]

\* the collections the owning application may supply next: the current one
\* without one of its items, or with one more item at its end
BucketCollections ==
    {FilterOut(items, k) : k \in IdsOf(items)}
    \cup {Append(items, BucketListItem(i)) :
            i \in {j \in 1..MaxLen : ToString(j) \notin IdsOf(items)}}

\* the bucketed list after its first layout, over the first items of the
\* universe
InitBucketList ==
    /\ ListAtRest
    /\ containerWidth = MeasuredWidth
    /\ items \in {[i \in 1..n |-> BucketListItem(i)] : n \in 1..MaxLen}
    /\ columnCount \in BucketColumnCounts
    /\ gap = columnGap
    /\ verticalGap = rowGap
    /\ computed = <<>>
    /\ columnsRef = distributeToColumns(items, columnCount)
    /\ balanceMoves = <<>>
    /\ frame = <<>>
    /\ drag = <<>>

\* handleDragStart(id, startScrollY, initialScreenY) of the bucketed list
BucketListDragStart(id) ==
    /\ id \in IdsOf(FlatFrom(columnsRef, 1))
    /\ id \notin gestures
    /\ activeDragId' = id
    /\ gestures' = gestures \cup {id}
    /\ emitted' = <<>>
    /\ balanceMoves' = <<>>
    /\ UNCHANGED <<data, sortEnabled, containerWidth, orderedData, orderedDataRef,
                   targetInsertIndex, isDropAnimating, dragStartIndexRef,
                   layoutWithoutDraggedRef, timers, preDrag, preDragWidth, handlers,
                   layoutVars, columnsRef, frame, drag>>

\* handleDragChange of the bucketed list, then the effect when setColumns
\* gave the columns state another value
BucketListDragChange(id, x, adjustedY) ==
    /\ id \in gestures
    /\ \E r \in {handleBucketDragChange(columnsRef, id, x, adjustedY, columnCount, containerWidth)} :
          /\ columnsRef' = IF r.columns # columnsRef
                           THEN reseedEffect(r.columns, items, columnCount, activeDragId)
                           ELSE columnsRef
    /\ balanceMoves' = <<>>
    /\ emitted' = <<>>
    /\ UNCHANGED <<data, sortEnabled, containerWidth, activeDragId, orderedData,
                   orderedDataRef, targetInsertIndex, isDropAnimating, dragStartIndexRef,
                   layoutWithoutDraggedRef, timers, gestures, preDrag, preDragWidth,
                   handlers, layoutVars, frame, drag>>

\* handleDragEnd(id) of the bucketed list; no dependency of the effect changes
BucketListDragEnd(id) ==
    /\ id \in gestures
    /\ activeDragId' = NULL
    /\ gestures' = gestures \ {id}
    /\ LET flatData == FlatFrom(columnsRef, 1)
           fromIndex == FindIndex(items, id)
           toIndex == FindIndex(flatData, id)
       IN  emitted' = <<[type |-> "dragEnd", key |-> id, fromIndex |-> fromIndex,
                         toIndex |-> toIndex, data |-> flatData],
                        [type |-> "orderChange", key |-> id, fromIndex |-> fromIndex,
                         toIndex |-> toIndex]>>
    /\ balanceMoves' = <<>>
    /\ UNCHANGED <<data, sortEnabled, containerWidth, orderedData, orderedDataRef,
                   targetInsertIndex, isDropAnimating, dragStartIndexRef,
                   layoutWithoutDraggedRef, timers, preDrag, preDragWidth, handlers,
                   layoutVars, columnsRef, frame, drag>>

\* the owning application supplies another collection: the effect runs, and
\* once more for the columns it set
BucketListExternalData(d) ==
    /\ d # items
    /\ items' = d
    /\ columnsRef' = reseedEffect(columnsRef, d, columnCount, activeDragId)
    /\ emitted' = <<>>
    /\ balanceMoves' = <<>>
    /\ UNCHANGED <<data, sortEnabled, containerWidth, activeDragId, orderedData,
                   orderedDataRef, targetInsertIndex, isDropAnimating, dragStartIndexRef,
                   layoutWithoutDraggedRef, timers, gestures, preDrag, preDragWidth,
                   handlers, columnCount, gap, verticalGap, computed, frame, drag>>

NextBucketList ==
    \/ \E id \in Keys \cup {ToString(i) : i \in 1..MaxLen} : BucketListDragStart(id)
    \/ \E id \in gestures, x \in BucketXs(columnCount), adjustedY \in BucketYs :
          BucketListDragChange(id, x, adjustedY)
    \/ \E id \in gestures : BucketListDragEnd(id)
    \/ \E d \in BucketCollections : BucketListExternalData(d)

SpecBucketList == InitBucketList /\ [][NextBucketList]_vars

\* ------------------------------------------- the auto-scroll frameCallback
autoScrollActivationOffset == 150
autoScrollMaxSpeed == 50
\* autoScrollTargetDuration / FRAME_TIME: 0.5 s at 60 frames a second
TargetDurationFrames == 30
\* Dimensions.get('window').height and layout.totalHeight, in px
windowHeight == 800
totalContentHeight == 1200

RECURSIVE Pow(_, _)
\* Math.pow(b, e) for a whole exponent e >= 0
Pow(b, e) == IF e = 0 THEN 1 ELSE b * Pow(b, e - 1)

\* Speeds are kept as whole multiples of 1 / TargetDurationFrames px, and a
\* delta or a scroll position computed by a frame as a whole multiple of
\* 1 / DeltaScale(f) px, so that the arithmetic of the callback is exact.
DeltaScale(f) == TargetDurationFrames * Pow(autoScrollActivationOffset, f.acceleration)

\* a variant of InTopZone that counts the boundary as part of the zone
InTopZoneInclusive(screenY, topThreshold) == screenY <= topThreshold /\ screenY > 0

\* `screenY < topThreshold && screenY > 0`
InTopZone(screenY, topThreshold) == screenY < topThreshold /\ screenY > 0

\* `screenY > windowHeight - bottomThreshold`
InBottomZone(screenY, bottomThreshold) == screenY > windowHeight - bottomThreshold

\* autoScrollMinSpeed + (effectiveMaxSpeed - autoScrollMinSpeed)
\*     * Math.pow(intensity, autoScrollAcceleration), times DeltaScale(f),
\* for intensity = depth / threshold
SpeedAt(f, effectiveMaxSpeed, depth) ==
    f.minSpeed * DeltaScale(f)
    + (effectiveMaxSpeed - f.minSpeed * TargetDurationFrames) * Pow(depth, f.acceleration)

\* the end of frameCallback: `if (Math.abs(scrollDelta) > 0.5) scrollTo(...)`
Scrolled(f, scrollDelta) ==
    LET magnitude == IF scrollDelta < 0 THEN -scrollDelta ELSE scrollDelta
        nextScroll == Min2(Max2(0, f.scrollOffset * DeltaScale(f) + scrollDelta),
                           totalContentHeight * DeltaScale(f))
    IN  [f EXCEPT !.delta = scrollDelta,
                  !.request = IF 2 * magnitude > DeltaScale(f) THEN <<nextScroll>> ELSE <<>>,
                  !.fresh = TRUE]

\* a variant of NeedsLock that computes the max speed on every frame
NeedsLockAlways(f) == TRUE

\* `if (lockedMaxSpeed.value < 0)`: no max speed is locked yet
NeedsLock(f) == f.lockedMaxSpeed < 0

\* the body of useFrameCallback(() => { ... }): the shared values after one
\* frame, with the scroll delta and the scrollTo request of that frame
frameCallback(f) ==
    LET screenY == f.dragY
        currentScroll == f.scrollOffset
        topThreshold == autoScrollActivationOffset
        bottomThreshold == autoScrollActivationOffset
        entered == [f EXCEPT !.entryY = IF f.entryY < 0 THEN screenY ELSE f.entryY]
        skipped == [entered EXCEPT !.delta = 0, !.request = <<>>, !.fresh = TRUE]
        up == IF entered.direction # -1
              THEN [entered EXCEPT !.lockedMaxSpeed = -TargetDurationFrames, !.direction = -1]
              ELSE entered
        upLocked ==
            IF NeedsLock(up)
            THEN [up EXCEPT !.lockedMaxSpeed =
                     Min2(currentScroll, autoScrollMaxSpeed * TargetDurationFrames)]
            ELSE up
        down == IF entered.direction # 1
                THEN [entered EXCEPT !.lockedMaxSpeed = -TargetDurationFrames, !.direction = 1]
                ELSE entered
        distanceToEdge == Max2(0, totalContentHeight - currentScroll)
        dynamicMaxSpeed == IF distanceToEdge > 0 THEN distanceToEdge
                           ELSE f.minSpeed * TargetDurationFrames
        downLocked ==
            IF NeedsLock(down)
            THEN [down EXCEPT !.lockedMaxSpeed =
                     Max2(f.minSpeed * TargetDurationFrames,
                          Min2(dynamicMaxSpeed, autoScrollMaxSpeed * TargetDurationFrames))]
            ELSE down
    IN  IF ~f.isDragging \/ ~f.enabled
        THEN [f EXCEPT !.lockedMaxSpeed = -TargetDurationFrames, !.direction = 0,
                       !.entryY = -1, !.delta = 0, !.request = <<>>, !.fresh = TRUE]
        ELSE IF InTopZone(screenY, topThreshold)
        THEN IF f.dragThreshold > 0 /\ entered.entryY - screenY < f.dragThreshold
             THEN skipped
             ELSE Scrolled(upLocked,
                           -SpeedAt(f, upLocked.lockedMaxSpeed, topThreshold - screenY))
        ELSE IF InBottomZone(screenY, bottomThreshold)
        THEN IF f.dragThreshold > 0 /\ screenY - entered.entryY < f.dragThreshold
             THEN skipped
             ELSE Scrolled(downLocked,
                           SpeedAt(f, downLocked.lockedMaxSpeed,
                                   screenY - (windowHeight - bottomThreshold)))
        ELSE [f EXCEPT !.lockedMaxSpeed = -TargetDurationFrames, !.direction = 0,
                       !.entryY = -1, !.delta = 0, !.request = <<>>, !.fresh = TRUE]

\* props: the documented default and another value the example app offers
DragThresholds == {0, 30}
MinSpeeds == {0, 2}
Accelerations == {1, 2}

\* e.absoluteY: the screen edges, both zone boundaries and points next to
\* them on either side, the middle of the screen
ScreenYs ==
    {0, autoScrollActivationOffset - 31, autoScrollActivationOffset - 1,
     autoScrollActivationOffset, windowHeight \div 2,
     windowHeight - autoScrollActivationOffset,
     windowHeight - autoScrollActivationOffset + 1,
     windowHeight - autoScrollActivationOffset + 31}

\* contentContainerStyle: { height: layout.totalHeight + 100 }
bottomPadding == 100

\* the largest offset the scroll view can be at: its content is
\* totalContentHeight + bottomPadding high and its viewport the window
MaxScrollOffset == Max2(0, totalContentHeight + bottomPadding - windowHeight)

\* the offsets the scroll view reports: both ends and a position between
ScrollOffsets == {0, MaxScrollOffset \div 2, MaxScrollOffset}

InitScroll ==
    /\ ListAtRest
    /\ containerWidth = MeasuredWidth
    /\ items = <<>>
    /\ columnCount = numColumns
    /\ gap = columnGap
    /\ verticalGap = rowGap
    /\ computed = <<>>
    /\ columnsRef = <<>>
    /\ balanceMoves = <<>>
    /\ drag = <<>>
    /\ \E enabled \in BOOLEAN, dragThreshold \in DragThresholds,
          minSpeed \in MinSpeeds, acceleration \in Accelerations :
          frame = [enabled |-> enabled, dragThreshold |-> dragThreshold,
                   minSpeed |-> minSpeed, acceleration |-> acceleration,
                   isDragging |-> FALSE, active |-> FALSE, dragY |-> 0,
                   scrollOffset |-> 0, entryY |-> -1,
                   lockedMaxSpeed |-> -TargetDurationFrames, direction |-> 0,
                   delta |-> 0, request |-> <<>>, fresh |-> FALSE,
                   zone |-> 0, zoneEntryScreenPosition |-> -1]

\* panGesture.onStart and handleDragStart, then the effect that activates
\* the frame callback
PanStart(y) ==
    /\ ~frame.isDragging
    /\ frame' = [frame EXCEPT !.dragY = y, !.isDragging = TRUE, !.active = TRUE,
                              !.fresh = FALSE]
    /\ UNCHANGED <<listVars, layoutVars, columnsRef, balanceMoves, drag>>

\* panGesture.onUpdate: dragY.value = e.absoluteY
PanUpdate(y) ==
    /\ frame.isDragging
    /\ frame' = [frame EXCEPT !.dragY = y, !.fresh = FALSE]
    /\ UNCHANGED <<listVars, layoutVars, columnsRef, balanceMoves, drag>>

\* handleDragEnd: isDraggingShared.value = false; the frame callback is
\* still active until the effect has run; the history of the
\* drag's frames ends with the drag
PanEnd ==
    /\ frame.isDragging
    /\ frame' = [frame EXCEPT !.isDragging = FALSE, !.fresh = FALSE,
                              !.zone = 0, !.zoneEntryScreenPosition = -1]
    /\ UNCHANGED <<listVars, layoutVars, columnsRef, balanceMoves, drag>>

\* the effect after the render that follows handleDragEnd: setActive(false)
Deactivate ==
    /\ frame.active
    /\ ~frame.isDragging
    /\ frame' = [frame EXCEPT !.active = FALSE, !.fresh = FALSE]
    /\ UNCHANGED <<listVars, layoutVars, columnsRef, balanceMoves, drag>>

\* the scroll view reports a new offset (useScrollViewOffset), after a
\* scrollTo or a scroll by the user
ScrollViewScrolled(offset) ==
    /\ offset # frame.scrollOffset
    /\ frame' = [frame EXCEPT !.scrollOffset = offset, !.fresh = FALSE]
    /\ UNCHANGED <<listVars, layoutVars, columnsRef, balanceMoves, drag>>

\* the edge zone in which a frame finds the pointer: -1 the top zone, 1 the
\* bottom zone, 0 neither or no drag to scroll for
ZoneOf(f) ==
    IF ~f.isDragging \/ ~f.enabled THEN 0
    ELSE IF InTopZone(f.dragY, autoScrollActivationOffset) THEN -1
    ELSE IF InBottomZone(f.dragY, autoScrollActivationOffset) THEN 1
    ELSE 0

\* history of the frames of one drag, kept beside the shared values and
\* never read by frameCallback: the zone the last frame found the pointer
\* in and the screen position of the first frame of the current stay there
Observed(f, after) ==
    [after EXCEPT !.zone = ZoneOf(f),
                  !.zoneEntryScreenPosition =
                      IF ZoneOf(f) = 0 THEN -1
                      ELSE IF ZoneOf(f) # f.zone THEN f.dragY
                      ELSE f.zoneEntryScreenPosition]

\* one frame while the callback is active
Frame ==
    /\ frame.active
    /\ frame' = Observed(frame, frameCallback(frame))
    /\ UNCHANGED <<listVars, layoutVars, columnsRef, balanceMoves, drag>>

NextScroll ==
    \/ \E y \in ScreenYs : PanStart(y)
    \/ \E y \in ScreenYs : PanUpdate(y)
    \/ PanEnd
    \/ Deactivate
    \/ \E offset \in ScrollOffsets : ScrollViewScrolled(offset)
    \/ Frame

SpecScroll == InitScroll /\ [][NextScroll]_vars

\* --------------------------------------------- the dragged item's rectangle
\* props of the item: its size, and the size of the grid in px
ItemWidth == ColumnWidth(MeasuredWidth, numColumns, columnGap)
ItemHeight == mockHeight(1)
containerHeight == 600

OverDragModes == {"both", "horizontal", "vertical", "none"}

\* the layout positions an item of this size can have in the grid
ItemXs == {0, ItemWidth + columnGap}
ItemYs == {0, containerHeight - ItemHeight}

\* e.translationX and e.translationY: no movement, and far beyond the grid
\* in either direction
TranslationXs == {-MeasuredWidth - ItemWidth, 0, MeasuredWidth + ItemWidth}
TranslationYs == {-containerHeight - ItemHeight, 0, containerHeight + ItemHeight}

\* scrollOffset.value: at the top, and scrolled by half the grid
ItemScrollOffsets == {0, containerHeight \div 2}

\* a variant of onUpdate that clamps for no mode
onUpdateUnclamped(d, eTranslationX, eTranslationY) ==
    [d EXCEPT !.translationX = eTranslationX, !.translationY = eTranslationY]

\* panGesture.onUpdate up to `translationY.value = transY`: the over-drag
\* restriction
onUpdate(d, eTranslationX, eTranslationY) ==
    LET currentX == d.startX + eTranslationX
        currentY == d.startY + eTranslationY
        scrollDelta == d.scrollOffset - d.dragStartScrollY
        absoluteY == currentY + scrollDelta
        clampedX == Max2(0, Min2(MeasuredWidth - ItemWidth, currentX))
        clampedY == Max2(0, Min2(containerHeight - ItemHeight, absoluteY))
        transX == IF d.overDrag \in {"none", "vertical"}
                  THEN clampedX - d.startX ELSE eTranslationX
        transY == IF d.overDrag \in {"none", "horizontal"}
                  THEN clampedY - d.startY - scrollDelta ELSE eTranslationY
    IN  [d EXCEPT !.translationX = transX, !.translationY = transY]

\* wrapperStyle of the active item: left and top
Left(d) == d.startX + d.translationX
Top(d) == d.startY + d.translationY + (d.scrollOffset - d.dragStartScrollY)

InitItem ==
    /\ ListAtRest
    /\ containerWidth = MeasuredWidth
    /\ items = <<>>
    /\ columnCount = numColumns
    /\ gap = columnGap
    /\ verticalGap = rowGap
    /\ computed = <<>>
    /\ columnsRef = <<>>
    /\ balanceMoves = <<>>
    /\ frame = <<>>
    /\ \E overDrag \in OverDragModes, x \in ItemXs, y \in ItemYs :
          drag = [overDrag |-> overDrag, x |-> x, y |-> y,
                  isDragging |-> FALSE, startX |-> 0, startY |-> 0,
                  translationX |-> 0, translationY |-> 0,
                  scrollOffset |-> 0, dragStartScrollY |-> 0]

\* panGesture.onStart, and the render that makes the item the active one
ItemPanStart ==
    /\ ~drag.isDragging
    /\ drag' = [drag EXCEPT !.startX = drag.x, !.startY = drag.y,
                            !.dragStartScrollY = drag.scrollOffset,
                            !.isDragging = TRUE]
    /\ UNCHANGED <<listVars, layoutVars, columnsRef, balanceMoves, frame>>

\* panGesture.onUpdate
ItemPanUpdate(eTranslationX, eTranslationY) ==
    /\ drag.isDragging
    /\ drag' = onUpdate(drag, eTranslationX, eTranslationY)
    /\ UNCHANGED <<listVars, layoutVars, columnsRef, balanceMoves, frame>>

\* the scroll view reports a new offset: a scrollTo of the auto-scroll frame
\* callback during the drag, or a scroll by the user before it
ItemScrolled(offset) ==
    /\ offset # drag.scrollOffset
    /\ drag' = [drag EXCEPT !.scrollOffset = offset]
    /\ UNCHANGED <<listVars, layoutVars, columnsRef, balanceMoves, frame>>

\* panGesture.onEnd, and the render after handleDragEnd
ItemPanEnd ==
    /\ drag.isDragging
    /\ drag' = [drag EXCEPT !.startX = drag.startX + drag.translationX,
                            !.startY = drag.startY + drag.translationY,
                            !.translationX = 0, !.translationY = 0,
                            !.isDragging = FALSE]
    /\ UNCHANGED <<listVars, layoutVars, columnsRef, balanceMoves, frame>>

NextItem ==
    \/ ItemPanStart
    \/ \E eTranslationX \in TranslationXs, eTranslationY \in TranslationYs :
          ItemPanUpdate(eTranslationX, eTranslationY)
    \/ \E offset \in ItemScrollOffsets : ItemScrolled(offset)
    \/ ItemPanEnd

SpecItem == InitItem /\ [][NextItem]_vars

\* ------------------------------------------ the resolver on its own
\* top edges of the dragged rectangle: its centre above, inside the lower
\* half of, and below an item at the top of a column
ResolverYs == {0, 40, 130}

InitResolver ==
    /\ ListAtRest
    /\ containerWidth = MeasuredWidth
    /\ items \in {l \in ItemLists : Len(l) > 0}
    /\ columnCount = numColumns
    /\ gap = columnGap
    /\ verticalGap = rowGap
    /\ computed = <<>>
    /\ NotMounted

\* findInsertIndex as handleDragChange calls it for the item dragId: with the
\* other items, and their positions in the layout without the dragged item
\* that handleDragStart stored
CallFindInsertIndex(dragId, x, y) ==
    /\ computed = <<>>
    /\ LET draggedItem == Find(items, dragId)
           columnWidth == ColumnWidth(containerWidth, columnCount, gap)
           withoutDragged == FilterOut(items, dragId)
           positions == calculateLayout(withoutDragged, columnCount, containerWidth,
                                        verticalGap, gap).positions
       IN  computed' =
             <<[by |-> "findInsertIndex", dragId |-> dragId, dragX |-> x, dragY |-> y,
                dragWidth |-> columnWidth, dragHeight |-> draggedItem.height,
                data |-> withoutDragged, positions |-> positions,
                result |-> findInsertIndex(x, y, columnWidth, draggedItem.height,
                                           withoutDragged, positions, dragId, -1,
                                           columnCount, gap)]>>
    /\ UNCHANGED <<items, columnCount, gap, verticalGap>>
    /\ UNCHANGED <<listVars, workletVars>>

NextResolver ==
    \E dragId \in IdsOf(items), x \in DragXs, y \in ResolverYs : CallFindInsertIndex(dragId, x, y)

SpecResolver == InitResolver /\ [][NextResolver]_vars

\* ------------------------------------------------------------- properties
\* the positions in `seq` of the callbacks of one type
EmittedOf(seq, type) == {i \in 1..Len(seq) : seq[i].type = type}

\* no key occurs twice in arr
UniqueIds(arr) == \A i, j \in 1..Len(arr) : arr[i].id = arr[j].id => i = j

\* one of the two layout functions has returned
LayoutComputed ==
    /\ computed # <<>>
    /\ computed[1].by \in {"calculateColumnLayout", "calculateLayout"}

\* Idle: no active key and no drop animation in progress
Idle == activeDragId = NULL /\ ~isDropAnimating

\* C1: whenever dragEnd commits, the committed order (the Logical Order after
\* the step, and `data` of the drag-end callback) has the length and exactly
\* the keys of the Logical Order before the drag started, each key once.
C1_CommitIsPermutation ==
    [][\A i \in EmittedOf(emitted', "dragEnd") :
          /\ orderedData' = emitted'[i].data
          /\ orderedDataRef' = emitted'[i].data
          /\ Len(orderedData') = Len(preDrag)
          /\ IdsOf(orderedData') = IdsOf(preDrag)
          /\ UniqueIds(orderedData')
          /\ {orderedData'[j] : j \in 1..Len(orderedData')}
               = {preDrag[j] : j \in 1..Len(preDrag)}]_vars

\* a drop has just committed an order that differs from the pre-drag order
C1_Witness ==
    \E i \in EmittedOf(emitted, "dragEnd") :
        /\ emitted[i].fromIndex # emitted[i].toIndex
        /\ orderedData = emitted[i].data
        /\ Len(orderedData) = MaxItems

\* C2: a cancelled gesture of the active key leaves the machine Idle with no
\* active key, the Display Order and the Logical Order equal to the pre-drag
\* Logical Order, and neither drag-end nor order-change emitted.
C2_CancelRestores ==
    [][\A k \in Keys :
          (sortEnabled /\ activeDragId = k /\ DragCancel(k)) =>
              /\ activeDragId' = NULL
              /\ ~isDropAnimating'
              /\ orderedData' = preDrag
              /\ displayData' = preDrag
              /\ EmittedOf(emitted', "dragEnd") = {}
              /\ EmittedOf(emitted', "orderChange") = {}]_vars

\* C3: a dragStart(k) while another key is active changes neither the active
\* key, the captured fromIndex, the tentative insert index nor the resolver's
\* base layout, and emits no drag-start callback.
C3_SecondStartRejected ==
    [][\A k \in Keys :
          (activeDragId # NULL /\ activeDragId # k /\ DragStart(k)) =>
              /\ UNCHANGED <<activeDragId, dragStartIndexRef, targetInsertIndex,
                             layoutWithoutDraggedRef>>
              /\ EmittedOf(emitted', "dragStart") = {}]_vars

\* C4: the drag-end payload carries the dragged key's index in the Logical
\* Order at dragStart as fromIndex, the committed order as data, and the
\* dragged key's index in that order as toIndex (data[toIndex] has the key).
C4_DragEndPayload ==
    [][\A i \in EmittedOf(emitted', "dragEnd") :
          LET e == emitted'[i]
          IN  /\ e.fromIndex = FindIndex(preDrag, e.key)
              /\ e.data = orderedData'
              /\ e.toIndex = FindIndex(e.data, e.key)
              /\ e.toIndex >= 0]_vars

\* C5: at a drop whose committed toIndex differs from the fromIndex captured
\* at dragStart, order-change is emitted exactly once, with these two indices;
\* it is not emitted when they are equal.
C5_OrderChangeOnMove ==
    [][\A i \in EmittedOf(emitted', "dragEnd") :
          LET fromIndex == dragStartIndexRef
              toIndex == FindIndex(orderedData', activeDragId)
              changes == EmittedOf(emitted', "orderChange")
          IN  /\ fromIndex # toIndex =>
                    /\ Cardinality(changes) = 1
                    /\ \A j \in changes :
                          /\ emitted'[j].fromIndex = fromIndex
                          /\ emitted'[j].toIndex = toIndex
                          /\ emitted'[j].key = emitted'[i].key
              /\ fromIndex = toIndex => changes = {}]_vars

\* a drop has just emitted order-change
C5_Witness ==
    \E j \in EmittedOf(emitted, "orderChange") :
        /\ emitted[j].fromIndex # emitted[j].toIndex
        /\ EmittedOf(emitted, "dragEnd") # {}

\* C6: no step that leaves a key active changes the Logical Order; a step
\* that replaces the external data while a key is active changes neither the
\* Display Order nor the order, tentative index and base layout the resolver
\* works on; and whenever the machine is Idle the Logical Order is the latest
\* external collection.
C6_ExternalDataDeferred ==
    [][/\ (activeDragId # NULL /\ activeDragId' # NULL) =>
              UNCHANGED <<orderedData, orderedDataRef>>
       /\ (activeDragId # NULL /\ data' # data) =>
              /\ displayData' = displayData
              /\ UNCHANGED <<orderedData, orderedDataRef, targetInsertIndex,
                             layoutWithoutDraggedRef, activeDragId>>
       /\ Idle' => (orderedData' = data' /\ orderedDataRef' = data')]_vars

\* a key is being dragged while the external collection already differs
C6_Witness ==
    /\ activeDragId # NULL
    /\ targetInsertIndex >= 0
    /\ data # orderedData
    /\ IdsOf(data) # IdsOf(orderedData)

\* C7: a dragChange or dragEnd whose key is not in the current order clears
\* the drag session, leaves the Logical Order alone and emits neither
\* drag-end nor order-change.
C7_UnknownKeyCancels ==
    [][\A k \in Keys :
          (/\ sortEnabled
           /\ k \notin IdsOf(orderedDataRef)
           /\ \/ DragEnd(k)
              \/ \E x \in DragXs, y \in DragYs : DragChange(k, x, y)) =>
              /\ activeDragId' = NULL
              /\ displayData' = orderedData'
              /\ orderedData' = orderedData
              /\ EmittedOf(emitted', "dragEnd") = {}
              /\ EmittedOf(emitted', "orderChange") = {}]_vars

C9_OneRectanglePerKey ==
    LayoutComputed =>
        LET positions == computed[1].layout.positions
        IN  /\ DOMAIN positions = IdsOf(items)
            /\ Cardinality(DOMAIN positions) = Len(items)
            /\ \A i \in 1..Len(items) :
                  positions[items[i].id].height = items[i].height

\* a layout of MaxLen items in several columns has been computed from buckets
C9_Witness ==
    /\ computed # <<>>
    /\ computed[1].by = "calculateColumnLayout"
    /\ Len(items) = MaxLen
    /\ columnCount > 1

RECURSIVE StackedBefore(_, _, _, _)
\* the sum of height + g over the first j items that `positions` puts in column c
StackedBefore(positions, c, j, g) ==
    IF j = 0 THEN 0
    ELSE StackedBefore(positions, c, j - 1, g)
         + (IF positions[items[j].id].column = c THEN items[j].height + g ELSE 0)

\* C10: in a computed layout every item's y is the sum of height + gap over
\* the items placed before it in its column (0 for the first), and two items
\* of one column do not overlap vertically.
C10_ColumnStacking ==
    LayoutComputed =>
        LET positions == computed[1].layout.positions
            g == computed[1].rowGap
        IN  /\ DOMAIN positions = IdsOf(items)
            /\ \A i \in 1..Len(items) :
                  positions[items[i].id].y =
                      StackedBefore(positions, positions[items[i].id].column, i - 1, g)
            /\ \A i, j \in 1..Len(items) :
                  (i < j /\ positions[items[i].id].column = positions[items[j].id].column) =>
                      positions[items[i].id].y + positions[items[i].id].height
                          <= positions[items[j].id].y

\* two items share a column of a layout computed with a positive gap
C10_Witness ==
    /\ LayoutComputed
    /\ computed[1].rowGap > 0
    /\ \E i, j \in 1..Len(items) :
          /\ i < j
          /\ items[i].height > 0
          /\ computed[1].layout.positions[items[i].id].column
               = computed[1].layout.positions[items[j].id].column
          /\ computed[1].layout.positions[items[j].id].y > 0

\* the 1-based column whose bucket holds the item with key id
BucketOf(buckets, id) ==
    CHOOSE c \in 1..Len(buckets) : id \in IdsOf(buckets[c])

RECURSIVE HeightBefore(_, _, _)
\* the sum of the heights of the items among the first j that are in bucket c
HeightBefore(buckets, c, j) ==
    IF j = 0 THEN 0
    ELSE HeightBefore(buckets, c, j - 1)
         + (IF items[j].id \in IdsOf(buckets[c]) THEN items[j].height ELSE 0)

\* C11: distributeToColumns returns numColumns buckets that hold every item
\* once, in input order within a bucket, each item in the column whose total
\* of item heights was smallest when it was placed, the lowest index on ties;
\* the items of heights 100, 150, 120, 80 go to [1, 3] and [2, 4] for 2 columns.
C11_GreedyBuckets ==
    /\ distributeToColumns(<<mockItem(1), mockItem(2), mockItem(3), mockItem(4)>>, 2)
         = <<(<<mockItem(1), mockItem(3)>>), (<<mockItem(2), mockItem(4)>>)>>
    /\ (computed # <<>> /\ computed[1].by = "calculateColumnLayout") =>
          LET buckets == computed[1].columns
          IN  /\ Len(buckets) = columnCount
              /\ \A i \in 1..Len(items) :
                    Cardinality({c \in 1..Len(buckets) : items[i].id \in IdsOf(buckets[c])}) = 1
              /\ \A c \in 1..Len(buckets) :
                    buckets[c] = SelectSeq(items, LAMBDA it : it.id \in IdsOf(buckets[c]))
              /\ \A i \in 1..Len(items), c \in 1..Len(buckets) :
                    LET own == BucketOf(buckets, items[i].id)
                    IN  /\ HeightBefore(buckets, own, i - 1) <= HeightBefore(buckets, c, i - 1)
                        /\ c < own =>
                              HeightBefore(buckets, own, i - 1) < HeightBefore(buckets, c, i - 1)

\* MaxLen items were distributed over several columns, with a tie on the way
\* and a bucket of two items of different heights
C11_Witness ==
    /\ computed # <<>>
    /\ computed[1].by = "calculateColumnLayout"
    /\ Len(items) = MaxLen
    /\ columnCount = 2
    /\ \E c \in 1..Len(computed[1].columns) :
          /\ Len(computed[1].columns[c]) = 2
          /\ computed[1].columns[c][1].height # computed[1].columns[c][2].height

RECURSIVE HeightWithGaps(_, _, _)
\* the sum of (height + g) over the first j items of a bucket
HeightWithGaps(bucket, j, g) ==
    IF j = 0 THEN 0 ELSE HeightWithGaps(bucket, j - 1, g) + bucket[j].height + g

\* C12: the totalHeight of calculateColumnLayout is the largest, over the
\* columns, of the sum of (height + gap) of the column's items; for buckets
\* that are all empty it returns an empty position map and totalHeight 0.
C12_TotalHeightIsTallestColumn ==
    (computed # <<>> /\ computed[1].by = "calculateColumnLayout") =>
        LET buckets == computed[1].columns
            sums == {HeightWithGaps(buckets[c], Len(buckets[c]), gap) : c \in 1..Len(buckets)}
        IN  /\ computed[1].layout.totalHeight \in sums
            /\ \A h \in sums : h <= computed[1].layout.totalHeight
            /\ (\A c \in 1..Len(buckets) : buckets[c] = <<>>) =>
                  /\ computed[1].layout.positions = EmptyObject
                  /\ computed[1].layout.totalHeight = 0

\* a layout was computed whose tallest column is not the first one, and the
\* gap is part of the height
C12_Witness ==
    /\ computed # <<>>
    /\ computed[1].by = "calculateColumnLayout"
    /\ gap > 0
    /\ LET buckets == computed[1].columns
       IN  \E c \in 2..Len(buckets) :
              /\ Len(buckets[c]) >= 1
              /\ HeightWithGaps(buckets[1], Len(buckets[1]), gap)
                   < HeightWithGaps(buckets[c], Len(buckets[c]), gap)
              /\ computed[1].layout.totalHeight
                   = HeightWithGaps(buckets[c], Len(buckets[c]), gap)

\* the layout of no items at all was computed
C12_WitnessEmpty ==
    /\ computed # <<>>
    /\ computed[1].by = "calculateColumnLayout"
    /\ items = <<>>

\* C17: moving an item from index i to index j and then from j back to i
\* gives the original list, for a list of at least 2 items.
C17_ReorderRoundTrip ==
    (computed # <<>> /\ computed[1].by = "reorderItems" /\ Len(items) >= 2) =>
        reorderItems(computed[1].result, computed[1].toIndex,
                     computed[1].fromIndex).result = items

\* an item was moved forward past another one
C17_Witness ==
    /\ computed # <<>>
    /\ computed[1].by = "reorderItems"
    /\ Len(items) = MaxLen
    /\ computed[1].fromIndex = 0
    /\ computed[1].toIndex = MaxLen - 1
    /\ computed[1].result # items

\* C18: reorderItems returns a list of the same length that is a permutation
\* of items, has items[from] at position to and keeps all other elements in
\* their relative order; the input list is not modified.
C18_ReorderMovesOneItem ==
    [][(computed = <<>> /\ computed' # <<>> /\ computed'[1].by = "reorderItems") =>
          LET result == computed'[1].result
              moved == items[computed'[1].fromIndex + 1]
          IN  /\ items' = items
              /\ Len(result) = Len(items)
              /\ \A q \in 1..Len(items) :
                    Cardinality({p \in 1..Len(result) : result[p] = items[q]}) = 1
              /\ result[computed'[1].toIndex + 1] = moved
              /\ FilterOut(result, moved.id) = FilterOut(items, moved.id)]_vars

\* an item was moved backward to the front over two others
C18_Witness ==
    /\ computed # <<>>
    /\ computed[1].by = "reorderItems"
    /\ Len(items) = MaxLen
    /\ computed[1].fromIndex = MaxLen - 1
    /\ computed[1].toIndex = 0
    /\ computed[1].result[1] = items[MaxLen]

\* C20: a layout computation invoked with a column count below 1, a negative
\* gap or a negative container width fails with an error and returns no
\* position map.
C20_InvalidConfigurationFails ==
    (computed # <<>> /\ (\/ columnCount < 1
                         \/ gap < 0
                         \/ containerWidth < 0
                         \/ (computed[1].by = "calculateLayout" /\ verticalGap < 0))) =>
        /\ computed[1].error # NULL
        /\ computed[1].layout = <<>>

\* C13: every balancing move of the bucketed list's dragChange leaves the
\* difference between the tallest and the shortest column height no larger
\* than it was before the move.
C13_BalancingNeverWidens ==
    \A m \in 1..Len(balanceMoves) : balanceMoves[m].after <= balanceMoves[m].before

\* C14: in a frame during a drag with the pointer outside both edge zones
\* (topThreshold <= screenY <= windowHeight - bottomThreshold) the scroll
\* delta is 0 and no scroll request is issued.
C14_NoScrollOutsideZones ==
    (/\ frame # <<>>
     /\ frame.fresh
     /\ frame.isDragging
     /\ autoScrollActivationOffset <= frame.dragY
     /\ frame.dragY <= windowHeight - autoScrollActivationOffset) =>
        /\ frame.delta = 0
        /\ frame.request = <<>>

\* a frame ran during a drag with the pointer on the boundary of the top
\* zone, at a scroll position from which the list could scroll up
C14_Witness ==
    /\ frame # <<>>
    /\ frame.fresh
    /\ frame.isDragging
    /\ frame.enabled
    /\ frame.dragY = autoScrollActivationOffset
    /\ frame.scrollOffset > 0
    /\ frame.entryY = -1

\* C15: the delta magnitude tends to 0 at the zone boundary: in a frame with
\* the pointer one pixel inside an edge zone it is at most the intensity
\* (1 / threshold) times autoScrollMaxSpeed.
C15_ContinuousAtBoundary ==
    (/\ frame # <<>>
     /\ frame.fresh
     /\ frame.isDragging
     /\ frame.dragY \in {autoScrollActivationOffset - 1,
                         windowHeight - autoScrollActivationOffset + 1}) =>
        /\ frame.delta * autoScrollActivationOffset
             <= autoScrollMaxSpeed * DeltaScale(frame)
        /\ -frame.delta * autoScrollActivationOffset
             <= autoScrollMaxSpeed * DeltaScale(frame)

\* C16: a dragChange that resolves the current tentative insert index makes
\* no state update: the tentative index, the active key, the Logical Order and
\* the container width stay as they are, and with them the Display Order and
\* the rendered positions, which are memoised on exactly these. (A step that
\* leaves the gestures, the data, the timers, the width and sortEnabled alone
\* is a dragChange.)
C16_SameIndexNoUpdate ==
    [][(/\ UNCHANGED <<gestures, data, timers, containerWidth, sortEnabled>>
        /\ targetInsertIndex' = targetInsertIndex) =>
          UNCHANGED <<orderedData, orderedDataRef, activeDragId, isDropAnimating,
                      dragStartIndexRef, layoutWithoutDraggedRef>>]_vars

\* a drag has moved its item to another index, and a dragChange at one of
\* the pointer positions resolves that index again
C16_Witness ==
    /\ activeDragId # NULL
    /\ activeDragId \in gestures
    /\ sortEnabled
    /\ layoutWithoutDraggedRef # <<>>
    /\ targetInsertIndex >= 0
    /\ targetInsertIndex # dragStartIndexRef
    /\ displayData # orderedData
    /\ \E x \in DragXs, y \in DragYs :
          handleDragChange(Cur, activeDragId, x, y).targetInsertIndex = targetInsertIndex

\* C19: during a drag the dragged rectangle keeps 0 <= x <= containerWidth -
\* width with overDrag 'none' or 'vertical', and 0 <= logical y <=
\* containerHeight - height with 'none' or 'horizontal', also after the scroll
\* offset has changed between two pointer updates.
C19_OverDragKeepsInside ==
    (drag # <<>> /\ drag.isDragging) =>
        /\ drag.overDrag \in {"none", "vertical"} =>
              (0 <= Left(drag) /\ Left(drag) <= MeasuredWidth - ItemWidth)
        /\ drag.overDrag \in {"none", "horizontal"} =>
              (0 <= Top(drag) /\ Top(drag) <= containerHeight - ItemHeight)

\* the horizontal half of C19, which the clamp of onUpdate does keep
C19_HorizontalBoundHolds ==
    (drag # <<>> /\ drag.isDragging /\ drag.overDrag \in {"none", "vertical"}) =>
        (0 <= Left(drag) /\ Left(drag) <= MeasuredWidth - ItemWidth)

RECURSIVE Occurrences(_, _, _)
\* how often the key id occurs in the buckets from column c on
Occurrences(buckets, id, c) ==
    IF c > Len(buckets) THEN 0
    ELSE Cardinality({q \in 1..Len(buckets[c]) : buckets[c][q].id = id})
         + Occurrences(buckets, id, c + 1)

\* C27: in the bucketed list, after any sequence of dragChange calls every
\* item key is in exactly one bucket exactly once, and the keys of all buckets
\* together are the keys the list had before the drag.
C27_EveryKeyInOneBucket ==
    columnsRef # <<>> =>
        /\ \A id \in IdsOf(items) : Occurrences(columnsRef, id, 1) = 1
        /\ UNION {IdsOf(columnsRef[c]) : c \in 1..Len(columnsRef)} = IdsOf(items)
        /\ Len(columnsRef) = columnCount

\* a dragChange of MaxLen items rearranged the buckets and the balancer
\* moved an item
C27_Witness ==
    /\ columnsRef # <<>>
    /\ Len(items) = MaxLen
    /\ columnsRef # distributeToColumns(items, columnCount)
    /\ balanceMoves # <<>>

\* C28: the height balancer of the bucketed list never moves the dragged
\* item: every move takes the last item of the tallest column, or the one
\* before it when the last one is the dragged item, and leaves the dragged
\* item in its column, so that after the dragChange it is in the column the
\* insert or swap step chose.
C28_BalancerSparesDragged ==
    /\ \A m \in 1..Len(balanceMoves) :
          /\ balanceMoves[m].item # balanceMoves[m].dragged
          /\ balanceMoves[m].tail # balanceMoves[m].dragged =>
                balanceMoves[m].item = balanceMoves[m].tail
          /\ balanceMoves[m].draggedTo = balanceMoves[m].draggedFrom
    /\ balanceMoves # <<>> =>
          SourceColFrom(columnsRef, balanceMoves[1].dragged, 0) = balanceMoves[1].draggedFrom

\* the balancer made a move in a dragChange whose dragged item was the last
\* one of the tallest column, and took the item before it
C28_Witness ==
    /\ balanceMoves # <<>>
    /\ \E m \in 1..Len(balanceMoves) :
          /\ balanceMoves[m].tail = balanceMoves[m].dragged
          /\ balanceMoves[m].item # balanceMoves[m].dragged


\* lockedMaxSpeed, autoScrollDirection and autoScrollZoneEntryY all unset
AutoScrollUnset(f) == f.lockedMaxSpeed < 0 /\ f.direction = 0 /\ f.entryY < 0

\* C24: a drag starts with the auto-scroll state unset: at every step that
\* begins a drag (isDraggingShared goes from false to true) the locked max
\* speed, the direction and the zone-entry position are unset, whatever the
\* order in which the frames, the end of the previous drag and the
\* deactivation of the frame callback took place.
C24_NewDragStartsUnset ==
    [][(frame # <<>> /\ ~frame.isDragging /\ frame'.isDragging) => AutoScrollUnset(frame')]_vars


\* C30: with a positive drag threshold, a frame that finds the pointer of an
\* active drag in an edge zone, less than dragThreshold nearer to that edge
\* than the position at which the frames first found it in the zone, has a
\* zero scroll delta, requests no scrollTo and leaves the locked max speed
\* as it was.
C30_DeadZoneGate ==
    [][(/\ frame # <<>>
        /\ frame'.fresh
        /\ frame'.isDragging /\ frame'.enabled /\ frame'.dragThreshold > 0
        /\ frame'.zone # 0
        /\ frame'.zone * (frame'.dragY - frame'.zoneEntryScreenPosition) < frame'.dragThreshold)
       => (/\ frame'.delta = 0
           /\ frame'.request = <<>>
           /\ frame'.lockedMaxSpeed = frame.lockedMaxSpeed)]_vars


\* The gate of C30 measured from the stored autoScrollZoneEntryY instead of
\* the position at which the frames found the pointer entering the zone.
C30_GateOnStoredEntry ==
    [][(/\ frame # <<>>
        /\ frame'.fresh
        /\ frame'.isDragging /\ frame'.enabled /\ frame'.dragThreshold > 0
        /\ frame'.zone # 0
        /\ frame'.zone * (frame'.dragY - frame'.entryY) < frame'.dragThreshold)
       => (/\ frame'.delta = 0
           /\ frame'.request = <<>>
           /\ frame'.lockedMaxSpeed = frame.lockedMaxSpeed)]_vars


\* a call of findInsertIndex has been made
ResolverCalled == computed # <<>> /\ computed[1].by = "findInsertIndex"

\* the column of the dragged rectangle of the call c
DragColumnOf(c) ==
    Max2(0, Min2((2 * c.dragX + c.dragWidth) \div (2 * (c.dragWidth + gap)), columnCount - 1))

\* the places in c.data of the items that lie in that column
InDragColumn(c) ==
    {i \in 1..Len(c.data) : c.positions[c.data[i].id].x \div (c.dragWidth + gap) = DragColumnOf(c)}

\* those of them whose vertical midpoint is below the dragged rectangle's
MidpointBelow(c) ==
    {i \in InDragColumn(c) :
        2 * c.positions[c.data[i].id].y + c.positions[c.data[i].id].height
            > 2 * c.dragY + c.dragHeight}

\* C29: when the column of the dragged rectangle holds other items,
\* findInsertIndex returns the index of the topmost of them whose vertical
\* midpoint is below the dragged rectangle's vertical midpoint, and the
\* index after the lowest item of the column when there is none.
C29_FirstMidpointBelow ==
    (ResolverCalled /\ InDragColumn(computed[1]) # {}) =>
        LET c == computed[1]
            y(i) == c.positions[c.data[i].id].y
        IN  IF MidpointBelow(c) # {}
            THEN c.result + 1 = CHOOSE i \in MidpointBelow(c) : \A j \in MidpointBelow(c) : y(i) <= y(j)
            ELSE c.result = CHOOSE i \in InDragColumn(c) : \A j \in InDragColumn(c) : y(j) <= y(i)


C23_DragEndAlwaysClears ==
    [][(/\ activeDragId # NULL
        /\ activeDragId \in gestures
        /\ gestures' = gestures \ {activeDragId}) =>
          /\ activeDragId' = NULL
          /\ targetInsertIndex' = -1]_vars


\* C22: while the owning application keeps passing the collection it passed
\* before the drag, the step that ends the Dropping state and leaves the
\* machine Idle keeps the Logical Order, which since the dragEnd is the
\* order that dragEnd committed.
C22_CommittedOrderSurvivesDrop ==
    [][(/\ isDropAnimating
        /\ ~isDropAnimating'
        /\ activeDragId' = NULL
        /\ data' = data) =>
          /\ orderedData' = orderedData
          /\ orderedDataRef' = orderedDataRef]_vars


\* C21: whenever dragEnd commits (a drag-end callback is emitted), the order
\* it commits, both the Logical Order after the step and `data` of the
\* callback, is the Display Order that was rendered before the step, that
\* is the Logical Order with the dragged item at the latest tentative index.
C21_CommitIsDisplayOrder ==
    [][\A i \in EmittedOf(emitted', "dragEnd") :
          /\ emitted'[i].data = displayData
          /\ orderedData' = displayData]_vars


\* C31: a frame that finds a max speed locked and the pointer of the drag
\* still in the zone of the current direction leaves the locked max speed as
\* it is, whatever the scroll offset has become; and the locked max speed
\* goes from set to unset only in a frame that finds the pointer outside
\* both zones, no drag, or auto-scroll disabled.
C31_LockedSpeedKept ==
    [][/\ (/\ frame # <<>>
           /\ frame'.fresh
           /\ frame.lockedMaxSpeed >= 0
           /\ ZoneOf(frame) # 0
           /\ ZoneOf(frame) = frame.direction)
          => frame'.lockedMaxSpeed = frame.lockedMaxSpeed
       /\ (/\ frame # <<>>
           /\ frame.lockedMaxSpeed >= 0
           /\ frame'.lockedMaxSpeed < 0)
          => (frame'.fresh /\ ZoneOf(frame) = 0)]_vars

\* a frame has kept a locked max speed in the top zone that is not the one
\* the present scroll offset would give
C31_Witness ==
    /\ frame # <<>>
    /\ frame.fresh
    /\ frame.isDragging /\ frame.enabled
    /\ InTopZone(frame.dragY, autoScrollActivationOffset)
    /\ frame.direction = -1
    /\ frame.lockedMaxSpeed >= 0
    /\ frame.request # <<>>
    /\ frame.lockedMaxSpeed # Min2(frame.scrollOffset, autoScrollMaxSpeed * TargetDurationFrames)


\* C32: a frame that finds the pointer of the drag in the edge zone opposite
\* to the one the previous frame found it in records the pointer's position
\* as the zone-entry position, and with a positive drag threshold, measured
\* from there, it leaves the max speed unset and does not scroll.
C32_DirectionChangeReenters ==
    [][(/\ frame # <<>>
        /\ frame'.fresh
        /\ frame.zone # 0
        /\ ZoneOf(frame) # 0
        /\ ZoneOf(frame) # frame.zone)
       => (/\ frame'.entryY = frame.dragY
           /\ frame.dragThreshold > 0 =>
                 /\ frame'.lockedMaxSpeed < 0
                 /\ frame'.delta = 0
                 /\ frame'.request = <<>>)]_vars


\* C33: every offset an auto-scroll frame requests lies between 0 and the
\* largest scrollable offset, totalContentHeight - windowHeight plus the
\* bottom buffer of the content. (Requests are in units of 1 / DeltaScale px.)
C33_RequestWithinScrollRange ==
    (frame # <<>> /\ frame.fresh /\ frame.request # <<>>) =>
        /\ frame.request[1] >= 0
        /\ frame.request[1] <= MaxScrollOffset * DeltaScale(frame)


\* C38: calculateLayout puts each item, in list order, in the column whose
\* accumulated height (the sum of height + rowGap over the items put there
\* before it) is smallest at that moment, the lowest such column on ties, at
\* the x of that column and at that accumulated height.
C38_FlatGreedyPlacement ==
    (computed # <<>> /\ computed[1].by = "calculateLayout") =>
        LET positions == computed[1].layout.positions
            g == computed[1].rowGap
            Height(c, i) == StackedBefore(positions, c, i - 1, g)
        IN  /\ DOMAIN positions = IdsOf(items)
            /\ \A i \in 1..Len(items) :
                  LET mine == positions[items[i].id].column
                  IN  /\ mine \in 0..(columnCount - 1)
                      /\ \A c \in 0..(columnCount - 1) : Height(mine, i) <= Height(c, i)
                      /\ \A c \in 0..(mine - 1) : Height(mine, i) < Height(c, i)
                      /\ positions[items[i].id].y = Height(mine, i)
                      /\ positions[items[i].id].x
                           = mine * (ColumnWidth(WidthFor(gap), columnCount, gap) + gap)

\* a flat layout of MaxLen items in which an item after the first met two
\* columns of the same smallest height, and another met columns of
\* different heights
C38_Witness ==
    /\ computed # <<>>
    /\ computed[1].by = "calculateLayout"
    /\ Len(items) = MaxLen
    /\ columnCount > 1
    /\ LET positions == computed[1].layout.positions
           g == computed[1].rowGap
       IN  /\ \E i \in 2..Len(items) : \E c \in 0..(columnCount - 1) :
                 /\ c # positions[items[i].id].column
                 /\ StackedBefore(positions, c, i - 1, g) > 0
                 /\ StackedBefore(positions, c, i - 1, g)
                      = StackedBefore(positions, positions[items[i].id].column, i - 1, g)
           /\ \E i \in 2..Len(items) : positions[items[i].id].column > 0


\* C36: right after dragStart(key) took effect the Display Order is the
\* Logical Order; a dragEnd(key) that follows at once, the tentative insert
\* index never having changed, leaves the Logical Order as it was, reports
\* toIndex = fromIndex and `data` equal to that order in its drag-end
\* callback, and calls no order-change callback.
C36_UnmovedDragIsNoOp ==
    [][(/\ EmittedOf(emitted, "dragStart") # {}
        /\ emitted[1].key = activeDragId)
       => /\ displayData = orderedData
          /\ (/\ sortEnabled
              /\ activeDragId \in gestures
              /\ gestures' = gestures \ {activeDragId})
             => /\ orderedData' = orderedData
                /\ EmittedOf(emitted', "orderChange") = {}
                /\ Len(emitted') = 1
                /\ emitted'[1].type = "dragEnd"
                /\ emitted'[1].key = activeDragId
                /\ emitted'[1].toIndex = emitted'[1].fromIndex
                /\ emitted'[1].fromIndex = emitted[1].fromIndex
                /\ emitted'[1].data = orderedData]_vars

\* the drag-end callback of a drag of the last item of two or more that
\* ended right after it started
C36_Witness ==
    /\ EmittedOf(emitted, "dragEnd") # {}
    /\ emitted[1].fromIndex = emitted[1].toIndex
    /\ emitted[1].fromIndex > 0
    /\ emitted[1].data = orderedData
    /\ activeDragId = NULL
    /\ isDropAnimating


\* C35: while a settle timer scheduled by a dragEnd is still pending the
\* Dropping flag stays set: a settle timer that fires while a later one is
\* pending does not end Dropping.
C35_EarlierTimerKeepsDropping ==
    [][(/\ isDropAnimating
        /\ timers' = timers - 1
        /\ timers' > 0)
       => isDropAnimating']_vars


\* ------------------------------------------------------- virtualization
overscanCount == 1
virtualizationEnabled == TRUE

\* values of currentScrollY: the top of the content, and a position so far
\* down that no item of the model's universe is within the overscan
CurrentScrollYs == {0, 10 * windowHeight}

\* function filterVisibleItems(data, positions, scrollY, viewportHeight,
\*                             overscanPixels, keyExtractor, activeDragId)
filterVisibleItems(arr, positions, scrollY, viewportHeight, overscanPixels, active) ==
    LET visibleTop == scrollY - overscanPixels
        visibleBottom == scrollY + viewportHeight + overscanPixels
        Kept(item) ==
            IF active # NULL /\ item.id = active THEN TRUE
            ELSE IF item.id \notin DOMAIN positions THEN FALSE
            ELSE /\ positions[item.id].y + positions[item.id].height >= visibleTop
                 /\ positions[item.id].y <= visibleBottom
    IN  SelectSeq(arr, Kept)

\* const visibleItems = useMemo(...), for a value of currentScrollY
visibleItems(currentScrollY) ==
    IF activeDragId # NULL \/ isDropAnimating THEN displayData
    ELSE IF ~virtualizationEnabled THEN displayData
    ELSE filterVisibleItems(displayData, layout.positions, currentScrollY,
                            windowHeight, overscanCount * windowHeight, activeDragId)

\* the settle timers of handleDragEnd are never cancelled: a pending one fires
SpecSettle == Spec /\ WF_vars(SettleTimer)

\* C34: a dragEnd the list handles (sorting is enabled) puts it in Dropping
\* and schedules a settle timer;
\* while a settle timer is pending the list is in Dropping, every item of the
\* Display Order is rendered wherever the list is scrolled to, and a change
\* of the external data does not replace the Logical Order; when the last
\* pending timer has fired and no drag is active the list is Idle.
C34_DroppingUntilSettled ==
    [][/\ (sortEnabled /\ gestures' # gestures /\ gestures' \subseteq gestures)
          => (isDropAnimating' /\ timers' = timers + 1)
       /\ timers' > 0
          => /\ isDropAnimating'
             /\ \A y \in CurrentScrollYs : visibleItems(y)' = displayData'
       /\ (timers > 0 /\ timers' > 0 /\ data' # data)
          => (orderedData' = orderedData /\ orderedDataRef' = orderedDataRef)
       /\ (timers > 0 /\ timers' = 0 /\ activeDragId' = NULL) => Idle']_vars

\* a pending settle timer fires and Dropping ends
C34_SettleTimerFires == isDropAnimating ~> ~isDropAnimating


\* C37: in the bucketed list a change of the external data that adds or
\* removes items while a drag is active leaves the buckets as they are, and
\* the dragEnd that leaves no drag active re-seeds buckets that do not hold
\* the items of the data: they become distributeToColumns(data, numColumns).
C37_ReseedAfterDrag ==
    [][/\ (items' # items /\ activeDragId # NULL) => columnsRef' = columnsRef
       /\ (/\ activeDragId # NULL
           /\ activeDragId' = NULL
           /\ items' = items
           /\ IdsOf(FlatFrom(columnsRef, 1)) # IdsOf(items))
          => columnsRef' = distributeToColumns(items, columnCount)]_vars

====
